---- MODULE Spec2Model ----
(***************************************************************************)
(* Message dispatch, session flows, quota ledger and AI background task of *)
(* the bot (aiogram 3 routers over a Redis session store, a Postgres user  *)
(* table and a Redis response cache).                                      *)
(*                                                                         *)
(* Texts are sequences of one-character strings, so that the command       *)
(* filter, the prefix filters and the cache-key normalisation are computed *)
(* on characters as the code computes them.  An absent text (None) is the  *)
(* empty sequence; Telegram never delivers an empty text.                  *)
(***************************************************************************)
EXTENDS Integers, Sequences, FiniteSets, TLC

(***************************************************************************)
(* Bounds of the model.                                                    *)
(***************************************************************************)
MaxEvents == 3      \* incoming updates delivered in one behaviour
MaxTasks == 2       \* background AI tasks created in one behaviour
MaxTicks == 1       \* clock advances in one behaviour
MaxRouteEvents == 2  \* updates delivered in one behaviour of the routing runs
MaxSweeps == 1      \* runs of the daily scheduler in one behaviour

(***************************************************************************)
(* Program constants.                                                      *)
(***************************************************************************)
ADMIN_ID == 1
MAX_HISTORY_MESSAGES == 4
FreeAiLimit == 10
FreePdfLimit == 10
PremiumAiLimit == 100
PremiumPdfLimit == 50
PremiumDays == 30
FreeResetDays == 30
MinPromptLen == 3
CacheKeyLen == 100

Users == {1, 2}
NULL == -1          \* SQL NULL / Python None for a timestamp column

(***************************************************************************)
(* Session states: aiogram's raw state, None when no flow is active.       *)
(***************************************************************************)
Idle == "None"
AwaitingClassSelection == "UserFlow:AwaitingClassSelection"
AwaitingSearchQuery == "UserFlow:AwaitingSearchQuery"
AwaitingAIPrompt == "UserFlow:AwaitingAIPrompt"
AwaitingScreenshot == "UserFlow:AwaitingScreenshot"
AwaitingBroadcastMessage == "AdminFlow:AwaitingBroadcastMessage"
DeletePDF_AwaitingConfirmation == "AdminFlow:DeletePDF_AwaitingConfirmation"
States == {Idle, AwaitingClassSelection, AwaitingSearchQuery, AwaitingAIPrompt,
           AwaitingScreenshot, AwaitingBroadcastMessage,
           DeletePDF_AwaitingConfirmation}

(***************************************************************************)
(* Texts of the filters.                                                   *)
(***************************************************************************)
NameStop == <<"s", "t", "o", "p">>
NameStart == <<"s", "t", "a", "r", "t">>
NameHelp == <<"h", "e", "l", "p">>
NameStats == <<"s", "t", "a", "t", "s">>
NameChangeClass == <<"c", "h", "a", "n", "g", "e", "c", "l", "a", "s", "s">>
NameUpgrade == <<"u", "p", "g", "r", "a", "d", "e">>
NamePaymentStatus == <<"p", "a", "y", "m", "e", "n", "t", "s", "t", "a", "t", "u", "s">>
NameAi == <<"a", "i">>
NameSearch == <<"s", "e", "a", "r", "c", "h">>
NameUpgradeUser == <<"u", "p", "g", "r", "a", "d", "e", "u", "s", "e", "r">>
NameEndPlan == <<"e", "n", "d", "p", "l", "a", "n">>
NameExtendLimit == <<"e", "x", "t", "e", "n", "d", "l", "i", "m", "i", "t">>
NameDeletePdf == <<"d", "e", "l", "e", "t", "e", "p", "d", "f">>
NameBroadcast == <<"b", "r", "o", "a", "d", "c", "a", "s", "t">>
\* the first character of a button label is its emoji, written as one token
BtnChatAi == <<"E_chat", " ", "C", "h", "a", "t", " ", "w", "i", "t", "h", " ", "A", "i">>
BtnSearchPdf == <<"E_search", " ", "S", "e", "a", "r", "c", "h", " ", "f", "o", "r", " ", "p", "d", "f">>
BtnPremium == <<"E_gem", " ", "A", "c", "c", "e", "s", "s", " ", "p", "r", "e", "m", "i", "u", "m", " ", "c", "o", "n", "t", "e", "n", "t">>
BtnHelp == <<"E_sos", " ", "/", "h", "e", "l", "p">>
PfxClass == <<"c", "l", "a", "s", "s", ":">>
PfxPay == <<"p", "a", "y", ":">>
PfxPdfPage == <<"p", "d", "f", "_", "p", "a", "g", "e", ":">>
PfxPdfLock == <<"p", "d", "f", "_", "l", "o", "c", "k", ":">>
PfxPdfGet == <<"p", "d", "f", "_", "g", "e", "t", ":">>
PfxDelSelect == <<"d", "e", "l", "_", "s", "e", "l", "e", "c", "t", ":">>
PfxDelConfirm == <<"d", "e", "l", "_", "c", "o", "n", "f", "i", "r", "m", ":">>
DataCheckJoin == <<"c", "h", "e", "c", "k", "_", "j", "o", "i", "n">>
DataNoop == <<"n", "o", "o", "p">>
DataNewSearch == <<"p", "d", "f", "_", "n", "e", "w", "_", "s", "e", "a", "r", "c", "h">>
DataDelCancel == <<"d", "e", "l", "_", "c", "a", "n", "c", "e", "l">>

(***************************************************************************)
(* Updates.  A message carries a text, or a photo with an optional         *)
(* caption, or neither (a sticker); a callback query carries its data.     *)
(***************************************************************************)
NoText == <<>>
Msg(t) == [type |-> "message", text |-> t, caption |-> NoText, photo |-> FALSE, data |-> NoText]
Photo(c) == [type |-> "message", text |-> NoText, caption |-> c, photo |-> TRUE, data |-> NoText]
Sticker == [type |-> "message", text |-> NoText, caption |-> NoText, photo |-> FALSE, data |-> NoText]
Callback(d) == [type |-> "callback_query", text |-> NoText, caption |-> NoText, photo |-> FALSE, data |-> d]
Cmd(name) == Msg(<<"/">> \o name)
CmdArg(name, arg) == Msg(<<"/">> \o name \o <<" ">> \o arg)

(***************************************************************************)
(* String helpers, computed on characters.                                 *)
(***************************************************************************)
StartsWith(s, p) == Len(s) >= Len(p) /\ SubSeq(s, 1, Len(p)) = p

IsSpace(c) == c = " "

RECURSIVE LStrip(_)
LStrip(s) == IF s # <<>> /\ IsSpace(Head(s)) THEN LStrip(Tail(s)) ELSE s

RECURSIVE RStrip(_)
RStrip(s) == IF s # <<>> /\ IsSpace(s[Len(s)]) THEN RStrip(SubSeq(s, 1, Len(s) - 1)) ELSE s

Strip(s) == RStrip(LStrip(s))

UpperCase == <<"A", "B", "C", "D", "E", "F", "G", "H", "I", "J", "K", "L", "M", "N", "O", "P", "Q", "R", "S", "T", "U", "V", "W", "X", "Y", "Z">>
LowerCase == <<"a", "b", "c", "d", "e", "f", "g", "h", "i", "j", "k", "l", "m", "n", "o", "p", "q", "r", "s", "t", "u", "v", "w", "x", "y", "z">>

\* str.lower() on one character
LowerChar(c) ==
    IF \E i \in DOMAIN UpperCase : UpperCase[i] = c
    THEN LowerCase[CHOOSE i \in DOMAIN UpperCase : UpperCase[i] = c]
    ELSE c

Lower(s) == [i \in 1..Len(s) |-> LowerChar(s[i])]

Truncate(s, n) == SubSeq(s, 1, IF Len(s) < n THEN Len(s) ELSE n)

\* str.split(maxsplit=1)[0] for a text that does not start with whitespace
RECURSIVE FirstWord(_)
FirstWord(s) == IF s = <<>> \/ IsSpace(Head(s)) THEN <<>> ELSE <<Head(s)>> \o FirstWord(Tail(s))

RestAfterFirstWord(s) == SubSeq(s, Len(FirstWord(s)) + 1, Len(s))

IsDigit(c) == c \in {"0", "1", "2", "3", "4", "5", "6", "7", "8", "9"}

DigitVal(c) == CASE c = "0" -> 0 [] c = "1" -> 1 [] c = "2" -> 2 [] c = "3" -> 3
                 [] c = "4" -> 4 [] c = "5" -> 5 [] c = "6" -> 6 [] c = "7" -> 7
                 [] c = "8" -> 8 [] c = "9" -> 9

IsDigits(s) == s # <<>> /\ \A i \in 1..Len(s) : IsDigit(s[i])

RECURSIVE ToInt(_)
ToInt(s) == IF s = <<>> THEN 0 ELSE 10 * ToInt(SubSeq(s, 1, Len(s) - 1)) + DigitVal(s[Len(s)])

(***************************************************************************)
(* The updates delivered in the runs.                                      *)
(***************************************************************************)
ClassEleven == <<"1", "1">>

PromptHey == <<"H", "e", "y">>
PromptHeyAgain == <<" ", "h", "e", "y">>
PromptShort == <<"h", "i">>

Prompts == {PromptHey, PromptHeyAgain, PromptShort}

AIEvents == {Cmd(NameStop), Cmd(NameAi)} \cup {Msg(p) : p \in Prompts}

AdminEvents ==
    {CmdArg(NameUpgradeUser, <<"2">>), CmdArg(NameEndPlan, <<"2">>),
     CmdArg(NameExtendLimit, <<"2", " ", "3", "0">>)}

UserEvents == {Msg(PromptHey), Callback(PfxPdfGet \o <<"1">>)}

RouteEvents ==
    {Cmd(n) : n \in {NameStop, NameStart, NameHelp, NameStats, NameChangeClass, NameUpgrade,
                     NamePaymentStatus, NameAi, NameSearch, NameDeletePdf, NameBroadcast}}
    \cup AdminEvents
    \cup {Msg(t) : t \in {PromptHey, BtnChatAi, BtnSearchPdf, BtnPremium, BtnHelp}}
    \cup {Photo(NoText), Photo(<<"/">> \o NameStop), Sticker}
    \cup {Callback(d) : d \in {DataCheckJoin, DataNoop, DataNewSearch, DataDelCancel,
                               PfxClass \o ClassEleven, PfxPay \o <<"1">>, PfxPdfPage \o <<"2">>,
                               PfxPdfLock \o <<"2">>, PfxPdfGet \o <<"1">>,
                               PfxDelSelect \o <<"1">>, PfxDelConfirm \o <<"1">>, <<"z">>}}

\* prompts that differ in case, outer whitespace or a trailing mark, and
\* prompts longer than the cache key
Pad(n) == [i \in 1..n |-> "a"]
PromptHeyTrail == <<"H", "E", "Y", " ">>
PromptHeyMark == <<"h", "e", "y", "?">>
PromptLong == Pad(CacheKeyLen - 1) \o <<" ", "b">>
PromptLongTight == Pad(CacheKeyLen + 1)

KeyPrompts ==
    {PromptHey, PromptHeyAgain, PromptHeyTrail, PromptHeyMark, PromptLong, PromptLongTight}

KeyEvents == {Msg(p) : p \in KeyPrompts}

\* inputs the handlers turn down, and the entries into the flows
QueryShort == <<"a">>

InputEvents ==
    {Msg(t) : t \in {PromptShort, PromptHey, QueryShort, PromptLongTight, BtnChatAi, BtnSearchPdf}}
    \cup {Photo(NoText), Cmd(NameAi), Cmd(NameSearch), Callback(PfxPdfGet \o <<"1">>)}

\* the buttons of a result list, and what leads to one
ListEvents ==
    {Cmd(NameSearch), Msg(PromptHey), CmdArg(NameUpgradeUser, <<"2">>), CmdArg(NameEndPlan, <<"2">>)}
    \cup {Callback(p \o d) : p \in {PfxPdfGet, PfxPdfLock}, d \in {<<"1">>, <<"2">>}}

AllEvents == AIEvents \cup UserEvents \cup RouteEvents \cup KeyEvents \cup InputEvents \cup ListEvents

(***************************************************************************)
(* Filters.                                                                *)
(***************************************************************************)
\* aiogram's Command filter: the text (or the caption) starts with "/" and
\* its first word, without the prefix, is the command
Command(name, ev) ==
    LET t == IF ev.text # NoText THEN ev.text ELSE ev.caption
    IN  /\ ev.type = "message"
        /\ t # NoText
        /\ Head(t) = "/"
        /\ Tail(FirstWord(t)) = name

AdminFilter(u) == u = ADMIN_ID

\* one filter of a registration, on the update alone
ContentMatches(c, ev) ==
    CASE c.k = "cmd" -> Command(c.v, ev)
      [] c.k = "not_cmd" -> ~Command(c.v, ev)
      [] c.k = "text_eq" -> ev.text = c.v
      [] c.k = "has_text" -> ev.text # NoText
      [] c.k = "photo" -> ev.photo
      [] c.k = "not_photo" -> ~ev.photo
      [] c.k = "data_eq" -> ev.data = c.v
      [] c.k = "data_pfx" -> StartsWith(ev.data, c.v)
      [] c.k = "any" -> TRUE

AnyState == "*"

\* a state filter that lets every state through
StateMatchesAny(want, st) == TRUE

StateMatches(want, st) == want = AnyState \/ want = st

H(name, type, admin, state, k, v) ==
    [h |-> name, type |-> type, admin |-> admin, state |-> state, c |-> [k |-> k, v |-> v]]

\* the observers of all_handlers_router, in the order the routers are included
\* and, inside a router, the order the handlers are registered
MessageHandlers == <<
    H("handle_stop_command", "message", FALSE, AnyState, "cmd", NameStop),
    H("handle_start", "message", FALSE, AnyState, "cmd", NameStart),
    H("handle_change_class", "message", FALSE, AnyState, "cmd", NameChangeClass),
    H("admin_upgrade_user", "message", TRUE, AnyState, "cmd", NameUpgradeUser),
    H("admin_end_plan", "message", TRUE, AnyState, "cmd", NameEndPlan),
    H("admin_extend_limit", "message", TRUE, AnyState, "cmd", NameExtendLimit),
    H("admin_stats", "message", TRUE, AnyState, "cmd", NameStats),
    H("admin_delete_pdf", "message", TRUE, AnyState, "cmd", NameDeletePdf),
    H("admin_broadcast", "message", TRUE, AnyState, "cmd", NameBroadcast),
    H("broadcast_message_received", "message", TRUE, AwaitingBroadcastMessage, "any", NoText),
    H("start_upgrade", "message", FALSE, AnyState, "text_eq", BtnPremium),
    H("start_upgrade", "message", FALSE, AnyState, "cmd", NameUpgrade),
    H("handle_screenshot", "message", FALSE, AwaitingScreenshot, "photo", NoText),
    H("invalid_screenshot", "message", FALSE, AwaitingScreenshot, "not_photo", NoText),
    H("check_payment_status", "message", FALSE, Idle, "cmd", NamePaymentStatus),
    H("start_ai_chat", "message", FALSE, AnyState, "text_eq", BtnChatAi),
    H("start_ai_chat", "message", FALSE, AnyState, "cmd", NameAi),
    H("handle_ai_prompt", "message", FALSE, AwaitingAIPrompt, "not_cmd", NameStop),
    H("start_search", "message", FALSE, AnyState, "text_eq", BtnSearchPdf),
    H("start_search", "message", FALSE, AnyState, "cmd", NameSearch),
    H("handle_search_query", "message", FALSE, AwaitingSearchQuery, "any", NoText),
    H("handle_unknown_text", "message", FALSE, Idle, "has_text", NoText) >>

CallbackHandlers == <<
    H("handle_check_join", "callback_query", FALSE, AnyState, "data_eq", DataCheckJoin),
    H("handle_class_selection", "callback_query", FALSE, AwaitingClassSelection, "data_pfx", PfxClass),
    H("admin_select_pdf_to_delete", "callback_query", TRUE, AnyState, "data_pfx", PfxDelSelect),
    H("admin_confirm_delete", "callback_query", TRUE, DeletePDF_AwaitingConfirmation, "data_pfx", PfxDelConfirm),
    H("admin_cancel_delete", "callback_query", TRUE, AnyState, "data_eq", DataDelCancel),
    H("send_payment_details", "callback_query", FALSE, AnyState, "data_pfx", PfxPay),
    H("handle_pagination", "callback_query", FALSE, AnyState, "data_pfx", PfxPdfPage),
    H("handle_noop", "callback_query", FALSE, AnyState, "data_eq", DataNoop),
    H("handle_new_search", "callback_query", FALSE, AnyState, "data_eq", DataNewSearch),
    H("handle_locked_pdf", "callback_query", FALSE, AnyState, "data_pfx", PfxPdfLock),
    H("send_pdf_link", "callback_query", FALSE, AnyState, "data_pfx", PfxPdfGet) >>

all_handlers_router == MessageHandlers \o CallbackHandlers

\* a registration matches: the observer is the update's, the router's own
\* filter (the admin router's AdminFilter) passes, the state filter and the
\* content filter pass
Matches(r, u, st, ev) ==
    /\ r.type = ev.type
    /\ r.admin => AdminFilter(u)
    /\ StateMatches(r.state, st)
    /\ ContentMatches(r.c, ev)

UNHANDLED == "UNHANDLED"

\* the first registration that matches, in registration order; UNHANDLED when
\* none does (the dispatcher logs the update as not handled and drops it)
RECURSIVE FirstMatch(_, _, _, _)
FirstMatch(i, u, st, ev) ==
    IF i > Len(all_handlers_router) THEN UNHANDLED
    ELSE IF Matches(all_handlers_router[i], u, st, ev) THEN all_handlers_router[i].h
    ELSE FirstMatch(i + 1, u, st, ev)

\* the handler of every update of the runs, for every sender and state
Routing == [u \in Users |-> [st \in States |-> [ev \in AllEvents |-> FirstMatch(1, u, st, ev)]]]

Dispatch(u, st, ev) == Routing[u][st][ev]


(***************************************************************************)
(* State.                                                                  *)
(***************************************************************************)
VARIABLES
    fsmState,   \* session store: user -> raw state
    fsmData,    \* session store: user -> payload (key -> value)
    users,      \* the users table: user -> row
    pdfs,       \* ids of the rows of the pdfs table
    cache,      \* response cache: key -> response text
    tasks,      \* background AI tasks created so far, finished ones included
    clicks,     \* send_pdf_link invocations suspended before their debit
    now,        \* the clock, in days
    sweep,      \* position of the daily scheduler run
    ctr,        \* what is left of the bounds, and the next update id
    last,       \* the step just taken: handler, user, state at dispatch, update
    ledger,     \* per user and resource, since the counter was last set:
                \* the value set, debit calls, successful debits, grants
    chat        \* user -> callback data of the result buttons in the chat

vars == <<fsmState, fsmData, users, pdfs, cache, tasks, clicks, now, sweep, ctr, last, ledger, chat>>

Kinds == {"ai", "pdf"}
PdfIds == {1, 2}

EmptyData == [k \in {} |-> 0]

\* FSMContext.update_data(key=value)
UpdateData(d, key, value) ==
    [k \in DOMAIN d \cup {key} |-> IF k = key THEN value ELSE d[k]]

\* dict.get(key, default)
GetOr(d, key, default) == IF key \in DOMAIN d THEN d[key] ELSE default

\* the column default of selected_class
ClassNone == <<"n", "o", "n", "e">>

\* a row as INSERT INTO users (user_id, username, last_active) creates it
NewRow == [exists |-> TRUE, selected_class |-> ClassNone, is_premium |-> FALSE,
           premium_expiry_date |-> NULL,
           ai_limit_remaining |-> FreeAiLimit,
           pdf_downloads_remaining |-> FreePdfLimit,
           pdf_downloads_reset_date |-> NULL]

NoRow == [NewRow EXCEPT !.exists = FALSE]

Period(n) == [start |-> n, calls |-> 0, oks |-> 0, granted |-> 0]

NoEvent == [type |-> "none", text |-> NoText, caption |-> NoText, photo |-> FALSE, data |-> NoText]

Step(h, u) == [h |-> h, u |-> u, st |-> fsmState[u], ev |-> NoEvent, out |-> "returned"]

(***************************************************************************)
(* The quota ledger's SQL.                                                 *)
(***************************************************************************)
\* a WHERE clause that also lets a counter at 0 through
DebitAppliesAtZero(row, col) == row.exists /\ row[col] >= 0

\* WHERE user_id = $1 AND <counter> > 0
DebitApplies(row, col) == row.exists /\ row[col] > 0

\* an UPDATE without the condition on the counter
DecrementUnguarded(row, col) ==
    IF row.exists THEN [row EXCEPT ![col] = @ - 1] ELSE row

\* decrement_ai_limit / decrement_pdf_download_limit: the row after the
\* UPDATE (the statement is one atomic conditional update)
Decrement(row, col) ==
    IF DebitApplies(row, col) THEN [row EXCEPT ![col] = @ - 1] ELSE row

KindCol(k) == IF k = "ai" THEN "ai_limit_remaining" ELSE "pdf_downloads_remaining"

\* the ledger entry after a debit call that reported ok
Debited(l, k, ok) ==
    [l EXCEPT ![k].calls = @ + 1, ![k].oks = @ + (IF ok THEN 1 ELSE 0)]

upgrade_user_to_premium(row, days) ==
    IF row.exists
    THEN [row EXCEPT !.is_premium = TRUE,
                     !.premium_expiry_date = now + days,
                     !.ai_limit_remaining = PremiumAiLimit,
                     !.pdf_downloads_remaining = PremiumPdfLimit,
                     !.pdf_downloads_reset_date = NULL]
    ELSE row

extend_user_premium(row, days) ==
    IF row.exists /\ row.is_premium /\ row.premium_expiry_date # NULL
    THEN [row EXCEPT !.premium_expiry_date = @ + days]
    ELSE row

end_user_plan(row) ==
    IF row.exists
    THEN [row EXCEPT !.is_premium = FALSE,
                     !.premium_expiry_date = NULL,
                     !.ai_limit_remaining = FreeAiLimit,
                     !.pdf_downloads_remaining = FreePdfLimit,
                     !.pdf_downloads_reset_date = now + FreeResetDays]
    ELSE row

\* a reset that ignores the tier
reset_daily_limits_flat(row) ==
    IF row.exists THEN [row EXCEPT !.ai_limit_remaining = FreeAiLimit] ELSE row

reset_daily_limits(row) ==
    IF row.exists
    THEN [row EXCEPT !.ai_limit_remaining = IF row.is_premium THEN PremiumAiLimit ELSE FreeAiLimit]
    ELSE row

reset_free_user_pdf_downloads(row) ==
    IF row.exists /\ ~row.is_premium
    THEN [row EXCEPT !.pdf_downloads_remaining = FreePdfLimit,
                     !.pdf_downloads_reset_date = now + FreeResetDays]
    ELSE row

\* a SELECT without the condition on the expiry date
get_premium_users ==
    {u \in Users : users[u].exists /\ users[u].is_premium}

get_expired_premium_users ==
    {u \in Users : /\ users[u].exists
                   /\ users[u].is_premium
                   /\ users[u].premium_expiry_date # NULL
                   /\ users[u].premium_expiry_date < now}

get_expired_free_users ==
    {u \in Users : /\ users[u].exists
                   /\ ~users[u].is_premium
                   /\ users[u].pdf_downloads_reset_date # NULL
                   /\ users[u].pdf_downloads_reset_date < now}

\* the ledger entry of a row whose counters a statement has just set
Restart(l, row, ks) ==
    [k \in Kinds |-> IF k \in ks THEN Period(row[KindCol(k)]) ELSE l[k]]


(***************************************************************************)
(* Dispatch of one update to the handler all_handlers_router selects.      *)
(***************************************************************************)
Routed(u, ev, h) ==
    /\ ctr.events > 0
    /\ Dispatch(u, fsmState[u], ev) = h

\* the handlers registered for error events (dp.errors, router.errors): none
ErrorHandlers == {}

\* the handler is over: it returned, or raised ("propagated" when no error
\* handler takes the exception and the dispatcher raises it again)
Ended(u, ev, h, out) ==
    /\ last' = [h |-> h, u |-> u, st |-> fsmState[u], ev |-> ev, out |-> out]
    /\ ctr' = [ctr EXCEPT !.events = @ - 1, !.upd = @ + 1]

Handled(u, ev, h) == Ended(u, ev, h, "returned")

Raised(u, ev, h) ==
    Ended(u, ev, h, IF ErrorHandlers = {} THEN "propagated" ELSE "error_reply")

\* a clear that forgets the payload
ClearStateOnly(u) ==
    /\ fsmState' = [fsmState EXCEPT ![u] = Idle]
    /\ UNCHANGED fsmData

\* FSMContext.clear(): the state becomes None and the payload {}
Clear(u) ==
    /\ fsmState' = [fsmState EXCEPT ![u] = Idle]
    /\ fsmData' = [fsmData EXCEPT ![u] = EmptyData]

\* FSMContext.set_state(s): the payload is left as it is
SetState(u, s) ==
    /\ fsmState' = [fsmState EXCEPT ![u] = s]
    /\ UNCHANGED fsmData

\* a handler that only replies
Replies(u, ev, h) ==
    /\ Routed(u, ev, h)
    /\ UNCHANGED <<fsmState, fsmData, users, pdfs, chat, cache, tasks, clicks, now, sweep, ledger>>
    /\ Handled(u, ev, h)

(***************************************************************************)
(* user_stop_menu                                                          *)
(***************************************************************************)
HandleStopCommand(u, ev) ==
    /\ Routed(u, ev, "handle_stop_command")
    /\ IF fsmState[u] # Idle THEN Clear(u) ELSE UNCHANGED <<fsmState, fsmData>>
    /\ UNCHANGED <<users, pdfs, chat, cache, tasks, clicks, now, sweep, ledger>>
    /\ Handled(u, ev, "handle_stop_command")

(***************************************************************************)
(* user_start                                                              *)
(***************************************************************************)
\* start_user_flow for the user the message is from; inChannel is the answer
\* of the channel-membership check
HandleStart(u, ev, inChannel) ==
    /\ Routed(u, ev, "handle_start")
    /\ IF ~inChannel
       THEN UNCHANGED <<fsmState, fsmData, users, ledger>>
       ELSE LET row == IF users[u].exists THEN users[u] ELSE NewRow
            IN  /\ users' = [users EXCEPT ![u] = row]
                /\ ledger' = IF users[u].exists THEN ledger
                             ELSE [ledger EXCEPT ![u] = Restart(@, row, Kinds)]
                /\ IF row.selected_class = ClassNone
                   THEN SetState(u, AwaitingClassSelection)
                   ELSE UNCHANGED <<fsmState, fsmData>>
    /\ UNCHANGED <<pdfs, chat, cache, tasks, clicks, now, sweep>>
    /\ Handled(u, ev, "handle_start")

\* start_user_flow is run on callback.message, a message sent by the bot: the
\* membership check and the row are the bot's own, whose class is never set,
\* while the session is the clicking user's
HandleCheckJoin(u, ev, inChannel) ==
    /\ Routed(u, ev, "handle_check_join")
    /\ IF inChannel THEN SetState(u, AwaitingClassSelection)
       ELSE UNCHANGED <<fsmState, fsmData>>
    /\ UNCHANGED <<users, pdfs, chat, cache, tasks, clicks, now, sweep, ledger>>
    /\ Handled(u, ev, "handle_check_join")

HandleChangeClass(u, ev) ==
    /\ Routed(u, ev, "handle_change_class")
    /\ SetState(u, AwaitingClassSelection)
    /\ UNCHANGED <<users, pdfs, chat, cache, tasks, clicks, now, sweep, ledger>>
    /\ Handled(u, ev, "handle_change_class")

\* set_user_class reports success whether or not a row was updated
HandleClassSelection(u, ev) ==
    /\ Routed(u, ev, "handle_class_selection")
    /\ users' = [users EXCEPT ![u] =
                    IF @.exists
                    THEN [@ EXCEPT !.selected_class = SubSeq(ev.data, Len(PfxClass) + 1, Len(ev.data))]
                    ELSE @]
    /\ Clear(u)
    /\ UNCHANGED <<pdfs, chat, cache, tasks, clicks, now, sweep, ledger>>
    /\ Handled(u, ev, "handle_class_selection")

(***************************************************************************)
(* admin                                                                   *)
(***************************************************************************)
\* parse_command: the argument after the first space, stripped; None if the
\* text has no space
CommandArg(text) == Strip(RestAfterFirstWord(text))

\* the target of /upgradeuser and /endplan: a row that exists, or 0
TargetOf(arg) ==
    IF IsDigits(arg) /\ ToInt(arg) \in Users /\ users[ToInt(arg)].exists
    THEN ToInt(arg) ELSE 0

AdminUpgradeUser(u, ev) ==
    /\ Routed(u, ev, "admin_upgrade_user")
    /\ LET t == TargetOf(CommandArg(ev.text))
       IN  IF t # 0 /\ ~users[t].is_premium
           THEN /\ users' = [users EXCEPT ![t] = upgrade_user_to_premium(@, PremiumDays)]
                /\ ledger' = [ledger EXCEPT ![t] = Restart(@, users'[t], Kinds)]
           ELSE UNCHANGED <<users, ledger>>
    /\ UNCHANGED <<fsmState, fsmData, pdfs, chat, cache, tasks, clicks, now, sweep>>
    /\ Handled(u, ev, "admin_upgrade_user")

AdminEndPlan(u, ev) ==
    /\ Routed(u, ev, "admin_end_plan")
    /\ LET t == TargetOf(CommandArg(ev.text))
       IN  IF t # 0 /\ users[t].is_premium
           THEN /\ users' = [users EXCEPT ![t] = end_user_plan(@)]
                /\ ledger' = [ledger EXCEPT ![t] = Restart(@, users'[t], Kinds)]
           ELSE UNCHANGED <<users, ledger>>
    /\ UNCHANGED <<fsmState, fsmData, pdfs, chat, cache, tasks, clicks, now, sweep>>
    /\ Handled(u, ev, "admin_end_plan")

\* /extendlimit <user_id> <days> with 0 < days <= 365
AdminExtendLimit(u, ev) ==
    /\ Routed(u, ev, "admin_extend_limit")
    /\ LET arg == CommandArg(ev.text)
           t == TargetOf(FirstWord(arg))
           d == Strip(RestAfterFirstWord(arg))
       IN  IF t # 0 /\ IsDigits(d) /\ ToInt(d) > 0 /\ ToInt(d) <= 365 /\ users[t].is_premium
           THEN users' = [users EXCEPT ![t] = extend_user_premium(@, ToInt(d))]
           ELSE UNCHANGED users
    /\ UNCHANGED <<fsmState, fsmData, pdfs, chat, cache, tasks, clicks, now, sweep, ledger>>
    /\ Handled(u, ev, "admin_extend_limit")

AdminStats(u, ev) == Replies(u, ev, "admin_stats")

AdminDeletePdf(u, ev) == Replies(u, ev, "admin_delete_pdf")

\* the text of the button of a listed PDF
PdfTitle == <<"t">>

AdminSelectPdfToDelete(u, ev) ==
    /\ Routed(u, ev, "admin_select_pdf_to_delete")
    /\ fsmState' = [fsmState EXCEPT ![u] = DeletePDF_AwaitingConfirmation]
    /\ fsmData' = [fsmData EXCEPT ![u] =
                      UpdateData(UpdateData(@, "pdf_id", ToInt(SubSeq(ev.data, Len(PfxDelSelect) + 1, Len(ev.data)))),
                                 "pdf_title", PdfTitle)]
    /\ UNCHANGED <<users, pdfs, chat, cache, tasks, clicks, now, sweep, ledger>>
    /\ Handled(u, ev, "admin_select_pdf_to_delete")

AdminConfirmDelete(u, ev) ==
    /\ Routed(u, ev, "admin_confirm_delete")
    /\ pdfs' = pdfs \ {ToInt(SubSeq(ev.data, Len(PfxDelConfirm) + 1, Len(ev.data)))}
    /\ Clear(u)
    /\ UNCHANGED <<users, cache, tasks, clicks, now, sweep, ledger, chat>>
    /\ Handled(u, ev, "admin_confirm_delete")

AdminCancelDelete(u, ev) ==
    /\ Routed(u, ev, "admin_cancel_delete")
    /\ IF fsmState[u] # Idle THEN Clear(u) ELSE UNCHANGED <<fsmState, fsmData>>
    /\ UNCHANGED <<users, pdfs, chat, cache, tasks, clicks, now, sweep, ledger>>
    /\ Handled(u, ev, "admin_cancel_delete")

\* /broadcast with an argument only shows the usage
AdminBroadcast(u, ev) ==
    /\ Routed(u, ev, "admin_broadcast")
    /\ IF CommandArg(ev.text) = <<>> THEN SetState(u, AwaitingBroadcastMessage)
       ELSE UNCHANGED <<fsmState, fsmData>>
    /\ UNCHANGED <<users, pdfs, chat, cache, tasks, clicks, now, sweep, ledger>>
    /\ Handled(u, ev, "admin_broadcast")

BroadcastMessageReceived(u, ev) ==
    /\ Routed(u, ev, "broadcast_message_received")
    /\ Clear(u)
    /\ UNCHANGED <<users, pdfs, chat, cache, tasks, clicks, now, sweep, ledger>>
    /\ Handled(u, ev, "broadcast_message_received")

(***************************************************************************)
(* payment                                                                 *)
(***************************************************************************)
StartUpgrade(u, ev) ==
    /\ Routed(u, ev, "start_upgrade")
    /\ Clear(u)
    /\ UNCHANGED <<users, pdfs, chat, cache, tasks, clicks, now, sweep, ledger>>
    /\ Handled(u, ev, "start_upgrade")

\* sent tells whether bot.send_photo delivered the QR code
SendPaymentDetails(u, ev, sent) ==
    /\ Routed(u, ev, "send_payment_details")
    /\ IF sent THEN SetState(u, AwaitingScreenshot) ELSE UNCHANGED <<fsmState, fsmData>>
    /\ UNCHANGED <<users, pdfs, chat, cache, tasks, clicks, now, sweep, ledger>>
    /\ Handled(u, ev, "send_payment_details")

\* what becomes of the three sends of handle_screenshot, in their order: the
\* notification to the operator, the forward of the photo, the confirmation;
\* "all_failed": the notification fails and so does the error reply of the
\* except branch, which raises out of the handler
ScreenshotSends == {"all", "notify_failed", "forward_failed", "confirm_failed", "all_failed"}

\* a forward whose failure is logged and passed over
ScreenshotAcceptedUnforwarded(sent) == sent \in {"all", "forward_failed"}

\* state.clear() is reached when none of the sends before it has raised;
\* otherwise the except branch answers with the error text
ScreenshotAccepted(sent) == sent = "all"

HandleScreenshot(u, ev, sent) ==
    /\ Routed(u, ev, "handle_screenshot")
    /\ IF ScreenshotAccepted(sent) THEN Clear(u) ELSE UNCHANGED <<fsmState, fsmData>>
    /\ UNCHANGED <<users, pdfs, chat, cache, tasks, clicks, now, sweep, ledger>>
    /\ IF sent = "all_failed"
       THEN Raised(u, ev, "handle_screenshot")
       ELSE Handled(u, ev, "handle_screenshot")

InvalidScreenshot(u, ev) == Replies(u, ev, "invalid_screenshot")

CheckPaymentStatus(u, ev) == Replies(u, ev, "check_payment_status")


(***************************************************************************)
(* ai_chat                                                                 *)
(***************************************************************************)
\* a key that is the prompt as typed
CacheKeyRaw(prompt) == prompt

\* cache_key: prompt.lower().strip()[:100]
CacheKey(prompt) == Truncate(Strip(Lower(prompt)), CacheKeyLen)

\* the texts call_my_ai_api returns: an answer of the model, or one of the
\* classified error texts, which start with a cross, warning or clock emoji
AiAnswer(prompt) == <<"r", "e", ":">> \o prompt
AiErrors == {<<"E_cross", "unavailable">>, <<"E_warn", "rejected">>}
AiResults(prompt) == {AiAnswer(prompt)} \cup AiErrors

\* a check that does not know the clock emoji
IsAiErrorNoClock(r) == Head(r) \in {"E_cross", "E_warn"}

\* ai_response.startswith of one of the three emoji
IsAiError(r) == Head(r) \in {"E_cross", "E_warn", "E_clock"}

Turn(role, text) == [role |-> role, text |-> text]

\* the history after a turn is appended, cut to the last 2 * MAX_HISTORY_MESSAGES
Appended(history, prompt, resp) ==
    LET h == history \o <<Turn("user", prompt), Turn("model", resp)>>
    IN  IF Len(h) > MAX_HISTORY_MESSAGES * 2
        THEN SubSeq(h, Len(h) - MAX_HISTORY_MESSAGES * 2 + 1, Len(h))
        ELSE h

\* an entry check that lets everybody in
AiEntryRefusedNever(row) == FALSE

\* if not user.is_premium and user.ai_limit_remaining <= 0
AiEntryRefused(row) == ~row.is_premium /\ row.ai_limit_remaining <= 0

StartAiChat(u, ev) ==
    /\ Routed(u, ev, "start_ai_chat")
    /\ IF users[u].exists /\ ~AiEntryRefused(users[u])
       THEN /\ fsmState' = [fsmState EXCEPT ![u] = AwaitingAIPrompt]
            /\ fsmData' = [fsmData EXCEPT ![u] = UpdateData(EmptyData, "history", <<>>)]
       ELSE Clear(u)
    /\ UNCHANGED <<users, pdfs, chat, cache, tasks, clicks, now, sweep, ledger>>
    /\ Handled(u, ev, "start_ai_chat")

\* start_ai_chat when the datastore cannot be reached: state.clear() is done
\* and get_user raises
StartAiChatRaises(u, ev) ==
    /\ Routed(u, ev, "start_ai_chat")
    /\ Clear(u)
    /\ UNCHANGED <<users, pdfs, chat, cache, tasks, clicks, now, sweep, ledger>>
    /\ Raised(u, ev, "start_ai_chat")

\* a validation that looks at the quota before it looks at the text
PromptCheckQuotaFirst(u, prompt) ==
    IF ~users[u].exists THEN "refuse"
    ELSE IF ~users[u].is_premium /\ users[u].ai_limit_remaining <= 0 THEN "refuse"
    ELSE IF prompt = NoText \/ Len(Strip(prompt)) = 0 \/ Len(prompt) < MinPromptLen THEN "reprompt"
    ELSE "schedule"

\* the fast validation of handle_ai_prompt: "reprompt" (empty or short text),
\* "refuse" (no row, or a free user out of queries) or "schedule"
PromptCheck(u, prompt) ==
    IF prompt = NoText \/ Len(Strip(prompt)) = 0 \/ Len(prompt) < MinPromptLen THEN "reprompt"
    ELSE IF ~users[u].exists THEN "refuse"
    ELSE IF ~users[u].is_premium /\ users[u].ai_limit_remaining <= 0 THEN "refuse"
    ELSE "schedule"

(***************************************************************************)
(* call_my_ai_api: the texts it returns and the state of one call          *)
(***************************************************************************)
max_retries == 3

\* the classified error texts, by their first character and their title
ErrNoModel == <<"E_cross", "no_model">>          \* AI Service Unavailable
ErrTimeout == <<"E_clock", "timeout">>           \* Response Timeout
ErrRateLimited == <<"E_cross", "rate_limited">>  \* Service Temporarily Unavailable
ErrRejected == <<"E_warn", "rejected">>          \* Content Policy Violation
ErrOther == <<"E_cross", "unavailable">>         \* AI Error
ApiErrors == {ErrNoModel, ErrTimeout, ErrRateLimited, ErrRejected, ErrOther}

\* the message of an exception, as the set of the words call_my_ai_api looks
\* for that occur in its lower-cased text
ErrorMessages ==
    {{}, {"quota"}, {"limit"}, {"resource"}, {"safety"}, {"blocked"},
     {"quota", "resource"}, {"limit", "safety"}}

\* what one attempt of generate_content_async under wait_for comes to
TextOutcome == [kind |-> "text", words |-> {}]
EmptyOutcome == [kind |-> "empty", words |-> {}]
TimeoutOutcome == [kind |-> "timeout", words |-> {}]
RaisedOutcome(words) == [kind |-> "raised", words |-> words]
AttemptOutcomes ==
    {TextOutcome, EmptyOutcome, TimeoutOutcome} \cup {RaisedOutcome(w) : w \in ErrorMessages}

\* a call that has not started: attempt is the loop variable, outcomes the
\* attempts made so far, waits the sleeps so far, notify what became of the
\* message to the admin, err the message of the exception that left the loop
ApiIdle ==
    [pc |-> "idle", attempt |-> 0, outcomes |-> <<>>, waits |-> <<>>,
     notify |-> "none", err |-> {}, result |-> NoText]

\* a handler that awaits the task: the task has run when the handler returns
Awaited == "done"

\* asyncio.create_task: the coroutine is queued at its first line, and does
\* not run before the handler gives the loop back
Scheduled == "cache_get"

NewTask(u, upd, prompt) ==
    [user |-> u, upd |-> upd, prompt |-> prompt, pc |-> Scheduled,
     history |-> <<>>, snap |-> NoRow, resp |-> NoText, outcome |-> "running",
     debited |-> 0, sentBal |-> users[u].ai_limit_remaining, debitBal |-> NULL,
     api |-> ApiIdle, raisedAt |-> "none"]

\* upd is the id of the update: a new one, or that of an earlier update the
\* transport delivers again
HandleAiPrompt(u, ev, upd) ==
    /\ Routed(u, ev, "handle_ai_prompt")
    /\ LET check == PromptCheck(u, ev.text)
       IN  /\ check = "schedule" => ctr.tasks > 0
           /\ IF check = "refuse" THEN Clear(u) ELSE UNCHANGED <<fsmState, fsmData>>
           /\ tasks' = IF check = "schedule" THEN Append(tasks, NewTask(u, upd, ev.text)) ELSE tasks
           /\ last' = [h |-> "handle_ai_prompt", u |-> u, st |-> fsmState[u], ev |-> ev,
                       out |-> "returned"]
           /\ ctr' = [ctr EXCEPT !.events = @ - 1, !.upd = @ + 1,
                                 !.tasks = IF check = "schedule" THEN @ - 1 ELSE @]
    /\ UNCHANGED <<users, pdfs, chat, cache, clicks, now, sweep, ledger>>

\* the transport delivers again the update that started task t
Redeliver(t) ==
    /\ t \in DOMAIN tasks
    /\ HandleAiPrompt(tasks[t].user, Msg(tasks[t].prompt), tasks[t].upd)

(***************************************************************************)
(* process_ai_request_task, one action per suspension point                *)
(***************************************************************************)
At(t, pc) == t \in DOMAIN tasks /\ tasks[t].pc = pc

\* a failure of the cache that ends the task in its except clause
OnCacheGetErrorFatal == "except"

\* except Exception around ai_cache.get: a warning, and on to the miss path
OnCacheGetError == "fetch"

\* ai_cache.get: a hit replies with the cached text and ends the task; a miss
\* or a failing cache goes on to the completion
TaskCacheGet(t, cacheFails) ==
    /\ At(t, "cache_get")
    /\ LET key == CacheKey(tasks[t].prompt)
           hit == ~cacheFails /\ key \in DOMAIN cache
       IN  tasks' = [tasks EXCEPT ![t].pc = IF hit THEN "done"
                                           ELSE IF cacheFails THEN OnCacheGetError
                                           ELSE "fetch",
                                  ![t].outcome = IF hit THEN "cached" ELSE @,
                                  ![t].resp = IF hit THEN cache[key] ELSE @]
    /\ last' = Step(IF cacheFails THEN "task_cache_get_failed" ELSE "task_cache_get", tasks[t].user)
    /\ UNCHANGED <<fsmState, fsmData, users, pdfs, chat, cache, clicks, now, sweep, ctr, ledger>>

\* state.get_data() and the re-fetch of the user row; without a row
\* user.selected_class raises
TaskFetch(t) ==
    /\ At(t, "fetch")
    /\ LET u == tasks[t].user
       IN  /\ tasks' = [tasks EXCEPT ![t].history = GetOr(fsmData[u], "history", <<>>),
                                     ![t].snap = users[u],
                                     ![t].pc = IF users[u].exists THEN "call_ai" ELSE "except",
                                     ![t].raisedAt = IF users[u].exists THEN @ ELSE "fetch"]
           /\ last' = Step("task_fetch", u)
    /\ UNCHANGED <<fsmState, fsmData, users, pdfs, chat, cache, clicks, now, sweep, ctr, ledger>>

\* call_my_ai_api returns r; an error text is replied and ends the task
TaskCallAi(t, r) ==
    /\ At(t, "call_ai")
    /\ r \in AiResults(tasks[t].prompt)
    /\ tasks' = [tasks EXCEPT ![t].resp = r,
                              ![t].pc = IF IsAiError(r) THEN "done" ELSE "debit",
                              ![t].outcome = IF IsAiError(r) THEN "ai_error" ELSE @]
    /\ last' = Step("task_call_ai", tasks[t].user)
    /\ UNCHANGED <<fsmState, fsmData, users, pdfs, chat, cache, clicks, now, sweep, ctr, ledger>>

\* the debit of a user whose snapshot is not premium, then the reply with the
\* answer, whatever the debit reported
TaskDebitReply(t) ==
    /\ At(t, "debit")
    /\ LET u == tasks[t].user
           free == ~tasks[t].snap.is_premium
           ok == free /\ DebitApplies(users[u], "ai_limit_remaining")
       IN  /\ users' = IF free THEN [users EXCEPT ![u] = Decrement(@, "ai_limit_remaining")] ELSE users
           /\ ledger' = IF free
                        THEN [ledger EXCEPT ![u] = [Debited(@, "ai", ok) EXCEPT !.ai.granted = @ + 1]]
                        ELSE ledger
           /\ tasks' = [tasks EXCEPT ![t].pc = "update",
                                     ![t].debited = IF ok THEN 1 ELSE 0,
                                     ![t].debitBal = IF free THEN users[u].ai_limit_remaining ELSE @]
           /\ last' = Step("task_debit_reply", u)
    /\ UNCHANGED <<fsmState, fsmData, pdfs, chat, cache, clicks, now, sweep, ctr>>

\* state.update_data(history=history)
TaskUpdateHistory(t) ==
    /\ At(t, "update")
    /\ LET u == tasks[t].user
       IN  /\ fsmData' = [fsmData EXCEPT ![u] =
                             UpdateData(@, "history", Appended(tasks[t].history, tasks[t].prompt, tasks[t].resp))]
           /\ last' = Step("task_update_history", u)
    /\ tasks' = [tasks EXCEPT ![t].pc = "cache_set"]
    /\ UNCHANGED <<fsmState, users, pdfs, chat, cache, clicks, now, sweep, ctr, ledger>>

\* ai_cache.set: a failure is logged and swallowed
TaskCacheSet(t, cacheFails) ==
    /\ At(t, "cache_set")
    /\ cache' = IF cacheFails THEN cache
                ELSE (CacheKey(tasks[t].prompt) :> tasks[t].resp) @@ cache
    /\ tasks' = [tasks EXCEPT ![t].pc = "done",
                              ![t].outcome = IF cacheFails THEN "answered_uncached" ELSE "answered"]
    /\ last' = Step("task_cache_set", tasks[t].user)
    /\ UNCHANGED <<fsmState, fsmData, users, pdfs, chat, clicks, now, sweep, ctr, ledger>>

(***************************************************************************)
(* call_my_ai_api, called by the task at "call_ai"                         *)
(***************************************************************************)
\* a sleep that does not grow
BackoffFlat(attempt) == 1

\* asyncio.sleep(2 ** attempt)
Backoff(attempt) == 2 ^ attempt

\* attempt < max_retries - 1
Retries(attempt) == attempt < max_retries - 1

\* the text returned for the exception that left the loop
Classify(words) ==
    IF "quota" \in words \/ "resource" \in words THEN ErrRateLimited
    ELSE IF "safety" \in words \/ "blocked" \in words THEN ErrRejected
    ELSE ErrOther

\* a send to the admin whose failure is not caught
NotifyUnguarded(words, sendFails) ==
    IF "quota" \in words \/ "limit" \in words
    THEN (IF sendFails THEN "raised" ELSE "sent")
    ELSE "none"

\* bot.send_message(ADMIN_ID, ...) under try / except Exception: pass
Notify(words, sendFails) ==
    IF "quota" \in words \/ "limit" \in words
    THEN (IF sendFails THEN "failed" ELSE "sent")
    ELSE "none"

InApi(t, pc) == At(t, "call_ai") /\ tasks[t].api.pc = pc

ApiStep(t, h) ==
    /\ last' = Step(h, tasks[t].user)
    /\ UNCHANGED <<fsmState, fsmData, users, pdfs, chat, cache, clicks, now, sweep, ctr, ledger>>

\* if not MODEL: if not initialize_ai_model(): return ...
\* modelReady: MODEL is set, or initialize_ai_model() now succeeds
ApiEnter(t, modelReady) ==
    /\ InApi(t, "idle")
    /\ tasks' = [tasks EXCEPT ![t].api.pc = IF modelReady THEN "attempt" ELSE "returned",
                              ![t].api.result = IF modelReady THEN @ ELSE ErrNoModel]
    /\ ApiStep(t, "api_enter")

\* one turn of for attempt in range(max_retries), the sleep before the next
\* turn included; the exception of the last turn leaves the loop
ApiAttempt(t, o) ==
    /\ InApi(t, "attempt")
    /\ LET a == tasks[t].api
           made == [a EXCEPT !.outcomes = Append(@, o)]
       IN  tasks' = [tasks EXCEPT ![t].api =
              IF o.kind = "text"
              THEN [made EXCEPT !.pc = "returned", !.result = AiAnswer(tasks[t].prompt)]
              ELSE IF Retries(a.attempt)
              THEN [made EXCEPT !.attempt = @ + 1, !.waits = Append(@, Backoff(a.attempt))]
              ELSE IF o.kind = "timeout"
              THEN [made EXCEPT !.pc = "returned", !.result = ErrTimeout]
              ELSE [made EXCEPT !.pc = "classify", !.err = o.words]]
    /\ ApiStep(t, "api_attempt")

\* except Exception as e: the message to the admin, then the classified text
ApiClassify(t, sendFails) ==
    /\ InApi(t, "classify")
    /\ LET a == tasks[t].api
           n == Notify(a.err, sendFails)
       IN  tasks' = [tasks EXCEPT ![t].api =
              IF n = "raised"
              THEN [a EXCEPT !.pc = "raised", !.notify = n]
              ELSE [a EXCEPT !.pc = "returned", !.notify = n, !.result = Classify(a.err)]]
    /\ ApiStep(t, "api_classify")

\* ai_response = await call_my_ai_api(...), and the check for an error text
TaskApiReturn(t) ==
    /\ InApi(t, "returned")
    /\ LET r == tasks[t].api.result
       IN  tasks' = [tasks EXCEPT ![t].resp = r,
                                  ![t].pc = IF IsAiError(r) THEN "done" ELSE "debit",
                                  ![t].outcome = IF IsAiError(r) THEN "ai_error" ELSE @]
    /\ ApiStep(t, "task_call_ai")

(***************************************************************************)
(* process_ai_request_task: the exceptions of its awaited calls            *)
(***************************************************************************)
\* a try that ends before the history is written
CaughtBeforeUpdate(at) == IF at = "update" THEN "escaped" ELSE "except"

\* try: ... except Exception as e: around the whole body of the task
Caught(at) == "except"

\* the awaited calls that can raise: the typing action, the session read,
\* the user and prompt lookups ("fetch"), the reply with an error text of the
\* completion ("call_ai"), the debit ("debit"), the history update ("update")
RaisePoints == {"fetch", "call_ai", "debit", "update"}

\* the call the task is suspended in raises, before it has changed anything
TaskRaises(t, at) ==
    /\ At(t, at)
    /\ at = "call_ai" => (tasks[t].api.pc = "returned" /\ IsAiError(tasks[t].api.result))
    /\ tasks' = [tasks EXCEPT ![t].pc = Caught(at), ![t].raisedAt = at,
                              ![t].outcome = IF Caught(at) = "escaped" THEN "escaped" ELSE @]
    /\ last' = Step("task_raises", tasks[t].user)
    /\ UNCHANGED <<fsmState, fsmData, users, pdfs, chat, cache, clicks, now, sweep, ctr, ledger>>

\* the debit is made and message.reply with the answer raises
TaskReplyRaises(t) ==
    /\ At(t, "debit")
    /\ LET u == tasks[t].user
           free == ~tasks[t].snap.is_premium
           ok == free /\ DebitApplies(users[u], "ai_limit_remaining")
       IN  /\ users' = IF free THEN [users EXCEPT ![u] = Decrement(@, "ai_limit_remaining")] ELSE users
           /\ ledger' = IF free THEN [ledger EXCEPT ![u] = Debited(@, "ai", ok)] ELSE ledger
           /\ tasks' = [tasks EXCEPT ![t].pc = Caught("reply"), ![t].raisedAt = "reply",
                                     ![t].debited = IF ok THEN 1 ELSE 0,
                                     ![t].debitBal = IF free THEN users[u].ai_limit_remaining ELSE @,
                                     ![t].outcome = IF Caught("reply") = "escaped" THEN "escaped" ELSE @]
           /\ last' = Step("task_reply_raises", u)
    /\ UNCHANGED <<fsmState, fsmData, pdfs, chat, cache, clicks, now, sweep, ctr>>

\* except Exception: message.reply("An unexpected error occurred"), whose own
\* failure is logged
TaskErrorReply(t, sendFails) ==
    /\ At(t, "except")
    /\ tasks' = [tasks EXCEPT ![t].pc = "done",
                              ![t].outcome = IF sendFails THEN "error_reply_failed" ELSE "error_replied"]
    /\ last' = Step("task_error_reply", tasks[t].user)
    /\ UNCHANGED <<fsmState, fsmData, users, pdfs, chat, cache, clicks, now, sweep, ctr, ledger>>

\* the TTL of an entry of the response cache runs out
CacheExpire(key) ==
    /\ key \in DOMAIN cache
    /\ cache' = [k \in DOMAIN cache \ {key} |-> cache[k]]
    /\ last' = Step("cache_expire", ADMIN_ID)
    /\ UNCHANGED <<fsmState, fsmData, users, pdfs, chat, tasks, clicks, now, sweep, ctr, ledger>>


(***************************************************************************)
(* pdf_search                                                              *)
(***************************************************************************)
StartSearch(u, ev) ==
    /\ Routed(u, ev, "start_search")
    /\ IF /\ users[u].exists
          /\ users[u].selected_class # ClassNone
          /\ ~(~users[u].is_premium /\ users[u].pdf_downloads_remaining <= 0)
       THEN SetState(u, AwaitingSearchQuery)
       ELSE UNCHANGED <<fsmState, fsmData>>
    /\ UNCHANGED <<users, pdfs, chat, cache, tasks, clicks, now, sweep, ledger>>
    /\ Handled(u, ev, "start_search")

\* what handle_search_query does to the session: "raise" (message.text is
\* None), "stay" (reprompt, or no results) or "clear"
SearchOutcome(u, ev, searchFails, found) ==
    IF ev.text = NoText THEN "raise"
    ELSE IF Len(Strip(ev.text)) < 2 \/ Len(Strip(ev.text)) > 100 THEN "stay"
    ELSE IF ~users[u].exists \/ searchFails THEN "clear"
    ELSE IF ~found THEN "stay"
    ELSE "clear"

\* the pdfs table: is_free of a row
is_free(pdf_id) == pdf_id = 1

\* str(pdf.pdf_id)
IdText(pdf_id) == CHOOSE d \in {<<"1">>, <<"2">>} : ToInt(d) = pdf_id

\* a keyboard that shows every result as a download button
create_pdf_keyboard_open(results, is_premium) ==
    {PfxPdfGet \o IdText(p) : p \in results}

\* create_pdf_keyboard: the callback data of the result buttons
create_pdf_keyboard(results, is_premium) ==
    {(IF ~is_free(p) /\ ~is_premium THEN PfxPdfLock ELSE PfxPdfGet) \o IdText(p) : p \in results}

\* the results are found and shown: the query is valid, the row exists and
\* the search returned rows
ResultsShown(u, ev, searchFails, found) ==
    /\ SearchOutcome(u, ev, searchFails, found) = "clear"
    /\ users[u].exists
    /\ ~searchFails
    /\ found
    /\ pdfs # {}

HandleSearchQuery(u, ev, searchFails, found) ==
    /\ Routed(u, ev, "handle_search_query")
    /\ IF SearchOutcome(u, ev, searchFails, found) = "clear"
       THEN Clear(u)
       ELSE UNCHANGED <<fsmState, fsmData>>
    /\ chat' = IF ResultsShown(u, ev, searchFails, found)
               THEN [chat EXCEPT ![u] = @ \cup create_pdf_keyboard(pdfs, users[u].is_premium)]
               ELSE chat
    /\ UNCHANGED <<users, pdfs, cache, tasks, clicks, now, sweep, ledger>>
    /\ IF SearchOutcome(u, ev, searchFails, found) = "raise"
       THEN Raised(u, ev, "handle_search_query")
       ELSE Handled(u, ev, "handle_search_query")

HandlePagination(u, ev) == Replies(u, ev, "handle_pagination")

HandleNoop(u, ev) == Replies(u, ev, "handle_noop")

\* start_search is run on callback.message, a message sent by the bot, whose
\* row has no class: it returns before set_state
HandleNewSearch(u, ev) == Replies(u, ev, "handle_new_search")

HandleLockedPdf(u, ev) == Replies(u, ev, "handle_locked_pdf")

\* int(callback.data.split(":")[1])
PdfIdOf(data) == ToInt(SubSeq(data, Len(PfxPdfGet) + 1, Len(data)))

\* send_pdf_link up to its debit: a premium user gets the link at once, a free
\* user with downloads left is suspended before decrement_pdf_download_limit
SendPdfLink(u, ev) ==
    /\ Routed(u, ev, "send_pdf_link")
    /\ IsDigits(SubSeq(ev.data, Len(PfxPdfGet) + 1, Len(ev.data)))
    /\ clicks' = IF /\ users[u].exists
                    /\ ~users[u].is_premium
                    /\ users[u].pdf_downloads_remaining > 0
                 THEN Append(clicks, [user |-> u, pdf |-> PdfIdOf(ev.data)])
                 ELSE clicks
    /\ UNCHANGED <<fsmState, fsmData, users, pdfs, chat, cache, tasks, now, sweep, ledger>>
    /\ Handled(u, ev, "send_pdf_link")

\* a link sent whatever the debit reported
LinkDeliveredUnchecked(ok, link) == link

\* the link is sent when the debit reported success and the lookup found it
LinkDelivered(ok, link) == ok /\ link

\* the rest of send_pdf_link for a free user: the debit, then, if it reported
\* success, the link lookup and the link
ClickDebit(i) ==
    /\ i \in DOMAIN clicks
    /\ LET u == clicks[i].user
           ok == DebitApplies(users[u], "pdf_downloads_remaining")
           link == clicks[i].pdf \in pdfs
       IN  /\ users' = [users EXCEPT ![u] = Decrement(@, "pdf_downloads_remaining")]
           /\ ledger' = [ledger EXCEPT ![u] =
                            [Debited(@, "pdf", ok) EXCEPT !.pdf.granted = @ + (IF LinkDelivered(ok, link) THEN 1 ELSE 0)]]
           /\ last' = Step("send_pdf_link_debit", u)
    /\ clicks' = [j \in 1..(Len(clicks) - 1) |-> IF j < i THEN clicks[j] ELSE clicks[j + 1]]
    /\ UNCHANGED <<fsmState, fsmData, pdfs, chat, cache, tasks, now, sweep, ctr>>

(***************************************************************************)
(* unknown_text, and an update no handler accepts                          *)
(***************************************************************************)
HandleUnknownText(u, ev) == Replies(u, ev, "handle_unknown_text")

\* no handler of any router accepts the update: the dispatcher drops it
Unhandled(u, ev) == Replies(u, ev, UNHANDLED)

(***************************************************************************)
(* The clock and run_daily_tasks                                           *)
(***************************************************************************)
Tick(d) ==
    /\ ctr.ticks > 0
    /\ now' = now + d
    /\ ctr' = [ctr EXCEPT !.ticks = @ - 1]
    /\ last' = Step("tick", ADMIN_ID)
    /\ UNCHANGED <<fsmState, fsmData, users, pdfs, chat, cache, tasks, clicks, sweep, ledger>>

\* the number of runs of a cron job that is never taken out
Daily == NULL

\* step 1: SELECT the premium users whose expiry has passed
SweepSelectPremium ==
    /\ sweep.pc = "idle"
    /\ (ctr.sweeps > 0 \/ ctr.sweeps = Daily)
    /\ sweep' = [pc |-> "downgrade", ids |-> get_expired_premium_users]
    /\ ctr' = [ctr EXCEPT !.sweeps = IF @ = Daily THEN @ ELSE @ - 1]
    /\ last' = Step("sweep_select_premium", ADMIN_ID)
    /\ UNCHANGED <<fsmState, fsmData, users, pdfs, chat, cache, tasks, clicks, now, ledger>>

\* step 1, per selected user: end_user_plan
SweepDowngrade(u) ==
    /\ sweep.pc = "downgrade"
    /\ u \in sweep.ids
    /\ users' = [users EXCEPT ![u] = end_user_plan(@)]
    /\ ledger' = [ledger EXCEPT ![u] = Restart(@, users'[u], Kinds)]
    /\ sweep' = [sweep EXCEPT !.ids = @ \ {u}]
    /\ last' = Step("sweep_downgrade", u)
    /\ UNCHANGED <<fsmState, fsmData, pdfs, chat, cache, tasks, clicks, now, ctr>>

\* step 2: SELECT the free users whose download reset date has passed
SweepSelectFree ==
    /\ sweep.pc = "downgrade"
    /\ sweep.ids = {}
    /\ sweep' = [pc |-> "reset_free", ids |-> get_expired_free_users]
    /\ last' = Step("sweep_select_free", ADMIN_ID)
    /\ UNCHANGED <<fsmState, fsmData, users, pdfs, chat, cache, tasks, clicks, now, ctr, ledger>>

\* step 2, per selected user: reset_free_user_pdf_downloads
SweepResetFree(u) ==
    /\ sweep.pc = "reset_free"
    /\ u \in sweep.ids
    /\ users' = [users EXCEPT ![u] = reset_free_user_pdf_downloads(@)]
    /\ ledger' = IF users[u].exists /\ ~users[u].is_premium
                 THEN [ledger EXCEPT ![u] = Restart(@, users'[u], {"pdf"})]
                 ELSE ledger
    /\ sweep' = [sweep EXCEPT !.ids = @ \ {u}]
    /\ last' = Step("sweep_reset_free", u)
    /\ UNCHANGED <<fsmState, fsmData, pdfs, chat, cache, tasks, clicks, now, ctr>>

\* step 3: reset_daily_limits, one UPDATE over the whole table
SweepResetDaily ==
    /\ sweep.pc = "reset_free"
    /\ sweep.ids = {}
    /\ users' = [u \in Users |-> reset_daily_limits(users[u])]
    /\ ledger' = [u \in Users |-> IF users[u].exists
                                   THEN Restart(ledger[u], users'[u], {"ai"})
                                   ELSE ledger[u]]
    /\ sweep' = [pc |-> "idle", ids |-> {}]
    /\ last' = Step("sweep_reset_daily", ADMIN_ID)
    /\ UNCHANGED <<fsmState, fsmData, pdfs, chat, cache, tasks, clicks, now, ctr>>


(***************************************************************************)
(* Initial states and updates.                                             *)
(***************************************************************************)
\* a registered user who has chosen a class and has ai and pdf left
Row(ai, pdf) ==
    [NewRow EXCEPT !.selected_class = ClassEleven,
                   !.ai_limit_remaining = ai,
                   !.pdf_downloads_remaining = pdf]

\* the payload each flow's entry handler leaves behind
EntryData(st) ==
    IF st = AwaitingAIPrompt THEN UpdateData(EmptyData, "history", <<>>)
    ELSE IF st = DeletePDF_AwaitingConfirmation
         THEN UpdateData(UpdateData(EmptyData, "pdf_id", 1), "pdf_title", PdfTitle)
    ELSE EmptyData

Budget(e, t, k, s) == [events |-> e, tasks |-> t, ticks |-> k, sweeps |-> s, upd |-> 1]

\* everything but the rows, the sessions and the bounds
InitRest ==
    /\ pdfs = PdfIds
    /\ cache = EmptyData
    /\ tasks = <<>>
    /\ clicks = <<>>
    /\ now = 0
    /\ sweep = [pc |-> "idle", ids |-> {}]
    /\ last = [h |-> "init", u |-> ADMIN_ID, st |-> Idle, ev |-> NoEvent, out |-> "returned"]
    /\ ledger = [u \in Users |-> [k \in Kinds |-> Period(users[u][KindCol(k)])]]
    /\ chat = [u \in Users |-> {}]

TickDays == {1, 31}
StartBalances == {1, 2}

\* the AI flow: the admin is idle with a fresh row, the other user is in the
\* flow with little left
InitAI ==
    /\ \E a \in StartBalances :
          users = [u \in Users |-> IF u = ADMIN_ID THEN Row(FreeAiLimit, FreePdfLimit)
                                   ELSE Row(a, FreePdfLimit)]
    /\ fsmState = [u \in Users |-> IF u = ADMIN_ID THEN Idle ELSE AwaitingAIPrompt]
    /\ fsmData = [u \in Users |-> EntryData(fsmState[u])]
    /\ ctr = Budget(MaxEvents, MaxTasks, 0, 0)
    /\ InitRest

TaskIds == 1..MaxTasks

CacheKeys == {CacheKey(p) : p \in Prompts}

NextAI ==
    \/ \E u \in Users, ev \in AIEvents :
          \/ HandleStopCommand(u, ev)
          \/ StartAiChat(u, ev)
          \/ HandleAiPrompt(u, ev, ctr.upd)
          \/ HandleUnknownText(u, ev)
    \/ \E t \in TaskIds :
          \/ Redeliver(t)
          \/ \E cacheFails \in BOOLEAN : TaskCacheGet(t, cacheFails)
          \/ TaskFetch(t)
          \/ \E r \in AiErrors \cup {AiAnswer(p) : p \in Prompts} : TaskCallAi(t, r)
          \/ TaskDebitReply(t)
          \/ TaskUpdateHistory(t)
          \/ \E cacheFails \in BOOLEAN : TaskCacheSet(t, cacheFails)
    \/ \E key \in CacheKeys : CacheExpire(key)

SpecAI == InitAI /\ [][NextAI]_vars


\* the quota ledger: the admin is idle, the other user is in the AI flow with
\* as little left of one resource as of the other
InitLedger ==
    /\ \E a \in StartBalances :
          users = [u \in Users |-> IF u = ADMIN_ID THEN Row(FreeAiLimit, FreePdfLimit) ELSE Row(a, a)]
    /\ fsmState = [u \in Users |-> IF u = ADMIN_ID THEN Idle ELSE AwaitingAIPrompt]
    /\ fsmData = [u \in Users |-> EntryData(fsmState[u])]
    /\ ctr = Budget(MaxEvents, MaxTasks, MaxTicks, MaxSweeps)
    /\ InitRest

ClickIds == 1..MaxEvents

NextLedger ==
    \/ \E ev \in AdminEvents :
          \/ AdminUpgradeUser(ADMIN_ID, ev)
          \/ AdminEndPlan(ADMIN_ID, ev)
          \/ AdminExtendLimit(ADMIN_ID, ev)
    \/ \E u \in Users \ {ADMIN_ID}, ev \in UserEvents :
          \/ HandleAiPrompt(u, ev, ctr.upd)
          \/ SendPdfLink(u, ev)
    \/ \E t \in TaskIds :
          \/ TaskCacheGet(t, FALSE)
          \/ TaskFetch(t)
          \/ TaskCallAi(t, AiAnswer(PromptHey))
          \/ TaskDebitReply(t)
          \/ TaskUpdateHistory(t)
          \/ TaskCacheSet(t, FALSE)
    \/ \E i \in ClickIds : ClickDebit(i)
    \/ \E d \in TickDays : Tick(d)
    \/ SweepSelectPremium
    \/ \E u \in Users : SweepDowngrade(u)
    \/ SweepSelectFree
    \/ \E u \in Users : SweepResetFree(u)
    \/ SweepResetDaily

SpecLedger == InitLedger /\ [][NextLedger]_vars


\* routing: the admin, who has not chosen a class, is idle or in one of the
\* admin flows; the other user is in any of the user flows
UserStates == {Idle, AwaitingClassSelection, AwaitingSearchQuery, AwaitingAIPrompt, AwaitingScreenshot}
AdminStates == {Idle, AwaitingBroadcastMessage, DeletePDF_AwaitingConfirmation}

InitRoute ==
    /\ users = [u \in Users |-> IF u = ADMIN_ID THEN NewRow ELSE Row(FreeAiLimit, FreePdfLimit)]
    /\ \E sa \in AdminStates, su \in UserStates :
          fsmState = [u \in Users |-> IF u = ADMIN_ID THEN sa ELSE su]
    /\ fsmData = [u \in Users |-> EntryData(fsmState[u])]
    /\ ctr = Budget(MaxRouteEvents, 1, 0, 0)
    /\ InitRest

NextRoute ==
    \/ \E u \in Users, ev \in RouteEvents :
          \/ HandleStopCommand(u, ev)
          \/ \E inChannel \in BOOLEAN : HandleStart(u, ev, inChannel)
          \/ \E inChannel \in BOOLEAN : HandleCheckJoin(u, ev, inChannel)
          \/ HandleChangeClass(u, ev)
          \/ HandleClassSelection(u, ev)
          \/ AdminUpgradeUser(u, ev)
          \/ AdminEndPlan(u, ev)
          \/ AdminExtendLimit(u, ev)
          \/ AdminStats(u, ev)
          \/ AdminDeletePdf(u, ev)
          \/ AdminSelectPdfToDelete(u, ev)
          \/ AdminConfirmDelete(u, ev)
          \/ AdminCancelDelete(u, ev)
          \/ AdminBroadcast(u, ev)
          \/ BroadcastMessageReceived(u, ev)
          \/ StartUpgrade(u, ev)
          \/ \E sent \in BOOLEAN : SendPaymentDetails(u, ev, sent)
          \/ \E sent \in ScreenshotSends : HandleScreenshot(u, ev, sent)
          \/ InvalidScreenshot(u, ev)
          \/ CheckPaymentStatus(u, ev)
          \/ StartAiChat(u, ev)
          \/ StartAiChatRaises(u, ev)
          \/ HandleAiPrompt(u, ev, ctr.upd)
          \/ StartSearch(u, ev)
          \/ \E searchFails \in BOOLEAN, found \in BOOLEAN : HandleSearchQuery(u, ev, searchFails, found)
          \/ HandlePagination(u, ev)
          \/ HandleNoop(u, ev)
          \/ HandleNewSearch(u, ev)
          \/ HandleLockedPdf(u, ev)
          \/ SendPdfLink(u, ev)
          \/ HandleUnknownText(u, ev)
          \/ Unhandled(u, ev)
    \/ \E t \in TaskIds :
          \/ TaskCacheGet(t, FALSE)
          \/ TaskFetch(t)
          \/ TaskCallAi(t, AiAnswer(tasks[t].prompt))
          \/ TaskDebitReply(t)
          \/ TaskUpdateHistory(t)
          \/ TaskCacheSet(t, FALSE)
    \/ \E i \in ClickIds : ClickDebit(i)

SpecRoute == InitRoute /\ [][NextRoute]_vars


(***************************************************************************)
(* Properties.                                                             *)
(***************************************************************************)
Min(a, b) == IF a < b THEN a ELSE b

\* C1: for every user and resource, of the debits run since the counter was
\* last set to n, exactly min(calls, n) report success; with a balance of 1
\* and any number of overlapping debits, exactly one reports success and the
\* others report failure.
C1_ExactlyOneDebitSucceeds ==
    \A u \in Users, k \in Kinds :
        ledger[u][k].oks = Min(ledger[u][k].calls, ledger[u][k].start)

\* two debits ran against a balance of 1, both after passing the handler's
\* own check of the balance, and one of them succeeded
C1_TwoDebitsOneSuccess ==
    \E u \in Users, k \in Kinds :
        /\ ledger[u][k].start = 1
        /\ ledger[u][k].calls = 2
        /\ ledger[u][k].oks = 1

\* C2: between two resets of the AI counter, the answers of the model (not of
\* the cache) delivered to a free user never outnumber the balance the user
\* had at the start of the period.
C2_NoOverGrant ==
    \A u \in Users :
        ~users[u].is_premium => ledger[u].ai.granted <= ledger[u].ai.start

\* C3: in every reachable state both counters of every user are >= 0.
C3_CountersNonNegative ==
    \A u \in Users :
        /\ users[u].ai_limit_remaining >= 0
        /\ users[u].pdf_downloads_remaining >= 0

\* a debit was refused at 0 and the counter is still 0
C3_RefusedAtZero ==
    \E u \in Users, k \in Kinds :
        /\ users[u][KindCol(k)] = 0
        /\ ledger[u][k].calls > ledger[u][k].oks

NormalizedHey == <<"h", "e", "y">>

\* C4: when the task of a free user who had 1 query left on sending, and still
\* has 1 at the debit, has missed the cache and got an answer, its debit
\* succeeds, it is the one debit of the task, and the counter becomes 0; when
\* the task then writes the cache, the answer is stored under the lower-cased,
\* stripped prompt.
C4_FirstPromptDebitsOnceAndCaches ==
    [][\A t \in TaskIds :
          /\ ( /\ TaskDebitReply(t)
               /\ ~tasks[t].snap.is_premium
               /\ tasks[t].sentBal = 1
               /\ users[tasks[t].user].ai_limit_remaining = 1 )
             => /\ users'[tasks[t].user].ai_limit_remaining = 0
                /\ tasks'[t].debited = 1
                /\ ledger'[tasks[t].user].ai.calls = ledger[tasks[t].user].ai.calls + 1
                /\ ledger'[tasks[t].user].ai.oks = ledger[tasks[t].user].ai.oks + 1
          /\ ( /\ TaskCacheSet(t, FALSE)
               /\ tasks[t].prompt \in {PromptHey, PromptHeyAgain} )
             => /\ NormalizedHey \in DOMAIN cache'
                /\ cache'[NormalizedHey] = tasks[t].resp
                /\ tasks'[t].debited = tasks[t].debited
                /\ users' = users]_vars

\* a task sent at balance 1 has debited once, left the balance at 0 and cached
\* its answer
C4_FirstPromptDone ==
    \E t \in DOMAIN tasks :
        /\ tasks[t].sentBal = 1
        /\ tasks[t].debitBal = 1
        /\ tasks[t].debited = 1
        /\ tasks[t].outcome = "answered"
        /\ users[tasks[t].user].ai_limit_remaining = 0
        /\ NormalizedHey \in DOMAIN cache
        /\ cache[NormalizedHey] = tasks[t].resp

\* C5: a valid prompt sent in AwaitingAIPrompt while the cache holds an answer
\* under its key is accepted: the sender stays in the flow and a task is
\* started for the prompt, to answer it from the cache.
C5_CachedPromptServed ==
    ( /\ last.h = "handle_ai_prompt"
      /\ PromptCheck(last.u, last.ev.text) # "reprompt"
      /\ CacheKey(last.ev.text) \in DOMAIN cache )
    => /\ fsmState[last.u] = AwaitingAIPrompt
       /\ tasks # <<>>
       /\ tasks[Len(tasks)].user = last.u
       /\ tasks[Len(tasks)].prompt = last.ev.text

\* C6: the tasks started by the deliveries of one update debit the AI counter
\* at most once between them.
C6_DuplicateDebitsOnce ==
    \A t1 \in DOMAIN tasks, t2 \in DOMAIN tasks :
        (t1 < t2 /\ tasks[t1].upd = tasks[t2].upd)
        => tasks[t1].debited + tasks[t2].debited <= 1


\* the step delivers update ev, sent by u, to some handler
Delivery(u, ev) ==
    /\ ctr'.events = ctr.events - 1
    /\ last'.u = u
    /\ last'.ev = ev

\* C7: in every state, a message whose command is /stop goes to
\* handle_stop_command; when the handler is done the sender is Idle, and the
\* payload is empty if the sender was in a flow, or was Idle with an empty
\* payload (a further /stop).
C7_StopEscapesEveryState ==
    [][\A u \in Users, ev \in RouteEvents :
          (Delivery(u, ev) /\ Command(NameStop, ev))
          => /\ last'.h = "handle_stop_command"
             /\ fsmState'[u] = Idle
             /\ (fsmState[u] # Idle \/ fsmData[u] = EmptyData) => fsmData'[u] = EmptyData]_vars

\* /stop has taken a user out of a flow whose payload was not empty
C7_StoppedOutOfFlow ==
    /\ last.h = "handle_stop_command"
    /\ last.st \in {AwaitingAIPrompt, DeletePDF_AwaitingConfirmation}
    /\ fsmState[last.u] = Idle
    /\ fsmData[last.u] = EmptyData

\* C8: in every state, /help goes to handle_help and /stats to handle_stats.
C8_HelpAndStatsEscapeEveryState ==
    /\ last.ev = Cmd(NameHelp) => last.h = "handle_help"
    /\ last.ev = Cmd(NameStats) => last.h = "handle_stats"

\* C9: every update is taken by a handler: a specific one, or the fallback.
C9_NoUpdateDropped ==
    last.ev # NoEvent => last.h # UNHANDLED

\* C10: a state-scoped handler runs only when the sender's state at dispatch
\* is the handler's.
C10_FlowExclusivity ==
    /\ last.h = "handle_ai_prompt" => last.st = AwaitingAIPrompt
    /\ last.h = "handle_search_query" => last.st = AwaitingSearchQuery
    /\ last.h \in {"handle_screenshot", "invalid_screenshot"} => last.st = AwaitingScreenshot
    /\ last.h = "handle_class_selection" => last.st = AwaitingClassSelection

\* a photo was taken by handle_screenshot, from a sender in AwaitingScreenshot
C10_ScreenshotInItsState ==
    /\ last.h = "handle_screenshot"
    /\ last.ev.photo
    /\ last.st = AwaitingScreenshot

\* C11: a handler that moves its sender into a state other than Idle leaves
\* in the payload only the keys that state's entry writes: nothing of the
\* flow the sender was in before.
C11_EntryClearsPayload ==
    (last.ev # NoEvent /\ fsmState[last.u] # Idle /\ fsmState[last.u] # last.st)
        => DOMAIN fsmData[last.u] \subseteq DOMAIN EntryData(fsmState[last.u])

(***************************************************************************)
(* The completion: one prompt of a user in the AI flow, every attempt of   *)
(* call_my_ai_api a step.                                                  *)
(***************************************************************************)
InitCompletion ==
    /\ users = [u \in Users |-> Row(FreeAiLimit, FreePdfLimit)]
    /\ fsmState = [u \in Users |-> IF u = ADMIN_ID THEN Idle ELSE AwaitingAIPrompt]
    /\ fsmData = [u \in Users |-> EntryData(fsmState[u])]
    /\ ctr = Budget(1, 1, 0, 0)
    /\ InitRest

ApiNext(t) ==
    \/ \E modelReady \in BOOLEAN : ApiEnter(t, modelReady)
    \/ \E o \in AttemptOutcomes : ApiAttempt(t, o)
    \/ \E sendFails \in BOOLEAN : ApiClassify(t, sendFails)

NextCompletion ==
    \/ \E u \in Users \ {ADMIN_ID} : HandleAiPrompt(u, Msg(PromptHey), ctr.upd)
    \/ TaskCacheGet(1, FALSE)
    \/ TaskFetch(1)
    \/ ApiNext(1)
    \/ TaskApiReturn(1)
    \/ TaskDebitReply(1)
    \/ TaskUpdateHistory(1)
    \/ TaskCacheSet(1, FALSE)
    \/ \E at \in RaisePoints : TaskRaises(1, at)
    \/ TaskReplyRaises(1)
    \/ \E sendFails \in BOOLEAN : TaskErrorReply(1, sendFails)

SpecCompletion == InitCompletion /\ [][NextCompletion]_vars

\* the event loop runs a call that can go on, and wait_for ends every attempt
SpecCompletionLive == SpecCompletion /\ WF_vars(ApiNext(1))

(***************************************************************************)
(* Properties of call_my_ai_api.                                           *)
(***************************************************************************)
\* the attempt failed with a safety or blocked error
Rejection(o) == o.kind = "raised" /\ ("safety" \in o.words \/ "blocked" \in o.words)

\* the attempts of the call of task t that did not return a text
Failed(t) == {i \in 1..Len(tasks[t].api.outcomes) : tasks[t].api.outcomes[i].kind # "text"}

\* C12: an attempt that fails with a safety or blocked error is the last
\* attempt of its call (no sleep and no further call to the model follow
\* it), and the call returns the rejected text.
C12_RejectionNotRetried ==
    \A t \in DOMAIN tasks :
        LET a == tasks[t].api
        IN  \A i \in 1..Len(a.outcomes) :
                Rejection(a.outcomes[i])
                    => /\ i = Len(a.outcomes)
                       /\ a.pc # "attempt"
                       /\ a.pc = "returned" => a.result = ErrRejected

C13_Bounded ==
    \A t \in DOMAIN tasks :
        LET a == tasks[t].api
            n == Len(a.outcomes)
        IN  /\ n <= max_retries
            /\ a.waits = SubSeq(<<1, 2>>, 1, Min(Cardinality(Failed(t)), max_retries - 1))
            /\ \A i \in 1..n :
                   a.outcomes[i].kind = "text"
                       => /\ i = n
                          /\ a.pc = "returned"
                          /\ a.result = AiAnswer(tasks[t].prompt)

\* C13: a call makes at most 3 attempts whatever their outcomes, sleeps 1 s
\* after a failed first attempt and 2 s after a failed second one, makes no
\* attempt after one that returned a text, and every call that starts returns.
C13_BoundedBackoffTerminates ==
    /\ []C13_Bounded
    /\ InApi(1, "idle") ~> InApi(1, "returned")

\* the third attempt answered, after sleeps of 1 s and 2 s
C13_ThirdAttemptAnswers ==
    /\ InApi(1, "returned")
    /\ Len(tasks[1].api.outcomes) = max_retries
    /\ tasks[1].api.outcomes[max_retries].kind = "text"
    /\ tasks[1].api.waits = <<1, 2>>

\* C14: a call whose third attempt failed by a timeout, an empty response or
\* an error other than a safety rejection returns a text of the unavailable
\* class.
C14_ExhaustedIsUnavailable ==
    \A t \in DOMAIN tasks :
        LET a == tasks[t].api
        IN  (/\ a.pc = "returned"
             /\ Len(a.outcomes) = max_retries
             /\ a.outcomes[max_retries].kind # "text"
             /\ ~Rejection(a.outcomes[max_retries]))
                => a.result \in {ErrOther, ErrTimeout}

\* C15: no exception leaves a call, and what a call returns is the answer of
\* the model or one of the classified error texts.
C15_NeverRaises ==
    \A t \in DOMAIN tasks :
        LET a == tasks[t].api
        IN  /\ a.pc # "raised"
            /\ a.pc = "returned" => a.result \in {AiAnswer(tasks[t].prompt)} \cup ApiErrors

\* the message to the admin could not be sent, and the call returned its text
C15_ReturnedThoughNotifyFailed ==
    /\ InApi(1, "returned")
    /\ tasks[1].api.notify = "failed"
    /\ tasks[1].api.result \in ApiErrors

\* C16: a call returns the rate-limited text exactly when it tried to send
\* the message to the admin.
C16_NotifiedIffRateLimited ==
    \A t \in DOMAIN tasks :
        LET a == tasks[t].api
        IN  a.pc = "returned" => (a.result = ErrRateLimited <=> a.notify # "none")

(***************************************************************************)
(* Properties of the background task.                                      *)
(***************************************************************************)
\* C17: the step that creates a task is handle_ai_prompt's and is over with
\* the task at its first line: no cache lookup and no attempt of the
\* completion has been made, and nothing but the session (on a refusal) and
\* the list of tasks has been written.
C17_HandlerDoesNotWait ==
    [][\A t \in TaskIds :
          (t \notin DOMAIN tasks /\ t \in DOMAIN tasks')
              => /\ last'.h = "handle_ai_prompt"
                 /\ tasks'[t].pc = "cache_get"
                 /\ tasks'[t].outcome = "running"
                 /\ tasks'[t].resp = NoText
                 /\ tasks'[t].api = ApiIdle
                 /\ UNCHANGED <<fsmState, fsmData, users, cache, ledger>>]_vars

\* the dispatcher has taken a later update while the task of an earlier
\* prompt has not yet got its completion
C17_NextUpdateWhileTaskPending ==
    /\ 1 \in DOMAIN tasks
    /\ tasks[1].pc \in {"cache_get", "fetch", "call_ai"}
    /\ last.ev # NoEvent
    /\ ctr.upd > tasks[1].upd + 1

\* C18: no exception leaves a task. A task in which an awaited call raised
\* goes to its except clause and ends with the error reply sent or, if the
\* send fails too, attempted; no task ends without an outcome.
C18_TaskNeverSilent ==
    \A t \in DOMAIN tasks :
        /\ tasks[t].pc # "escaped"
        /\ tasks[t].pc = "done" => tasks[t].outcome \notin {"running", "escaped"}
        /\ tasks[t].raisedAt # "none"
              => /\ tasks[t].pc \in {"except", "done"}
                 /\ tasks[t].pc = "done"
                       => tasks[t].outcome \in {"error_replied", "error_reply_failed"}

\* the history update raised after the answer was sent, and the error reply
\* was sent
C18_UpdateRaisedAndReplied ==
    /\ 1 \in DOMAIN tasks
    /\ tasks[1].raisedAt = "update"
    /\ tasks[1].pc = "done"
    /\ tasks[1].outcome = "error_replied"

\* C20: once the completion of a task has returned one of the classified
\* error texts, the task makes no debit, the cache and the stored history
\* are as they were, and the session is still in AwaitingAIPrompt.
C20_FailedCompletionCostsNothing ==
    \A t \in DOMAIN tasks :
        LET u == tasks[t].user
        IN  (tasks[t].api.pc = "returned" /\ tasks[t].api.result \in ApiErrors)
                => /\ tasks[t].pc \in {"call_ai", "except", "done"}
                   /\ tasks[t].debited = 0
                   /\ ledger[u].ai.calls = 0
                   /\ users[u].ai_limit_remaining = tasks[t].sentBal
                   /\ cache = EmptyData
                   /\ fsmData[u] = EntryData(AwaitingAIPrompt)
                   /\ fsmState[u] = AwaitingAIPrompt

\* three timeouts: the task replied with the timeout text and is over
C20_TimeoutReplied ==
    /\ 1 \in DOMAIN tasks
    /\ tasks[1].pc = "done"
    /\ tasks[1].outcome = "ai_error"
    /\ tasks[1].resp = ErrTimeout

\* C19: an exception that leaves a handler is taken at the router: it is
\* answered with the generic error reply and goes no further, and the
\* sender's state is what it was at dispatch.
C19_HandlerExceptionCaught ==
    last.out # "returned"
        => /\ last.out = "error_reply"
           /\ fsmState[last.u] = last.st

(***************************************************************************)
(* Properties of the response cache.                                       *)
(***************************************************************************)
\* C21: a task whose cache get raises is, after the get, where a task that
\* missed the cache is: at the fetch, with nothing else changed. A task whose
\* cache set raises ends with its answer sent and its debit made, without an
\* error reply, and leaves the cache as it was.
C21_CacheFailuresNonFatal ==
    [][\A t \in TaskIds :
          /\ (At(t, "cache_get") /\ last'.h = "task_cache_get_failed" /\ tasks'[t] # tasks[t])
                => /\ tasks'[t] = [tasks[t] EXCEPT !.pc = "fetch"]
                   /\ UNCHANGED <<fsmState, fsmData, users, cache, ledger>>
          /\ (At(t, "cache_set") /\ tasks'[t] # tasks[t])
                => /\ tasks'[t].pc = "done"
                   /\ tasks'[t].outcome \in {"answered", "answered_uncached"}
                   /\ tasks'[t].raisedAt = "none"
                   /\ tasks'[t].debited = tasks[t].debited
                   /\ UNCHANGED <<fsmState, fsmData, users, ledger>>
                   /\ tasks'[t].outcome = "answered_uncached" => cache' = cache]_vars

\* the get of a prompt whose answer is in the cache raised, and the task is
\* on its way to the completion
C21_CachedPromptRefetched ==
    \E t \in DOMAIN tasks :
        /\ last.h = "task_cache_get_failed"
        /\ CacheKey(tasks[t].prompt) \in DOMAIN cache
        /\ tasks[t].pc = "fetch"

(***************************************************************************)
(* The cache key: two prompts of a user in the AI flow, drawn from prompts *)
(* that differ in case, whitespace, a trailing mark and length.            *)
(***************************************************************************)
InitKey ==
    /\ users = [u \in Users |-> Row(FreeAiLimit, FreePdfLimit)]
    /\ fsmState = [u \in Users |-> IF u = ADMIN_ID THEN Idle ELSE AwaitingAIPrompt]
    /\ fsmData = [u \in Users |-> EntryData(fsmState[u])]
    /\ ctr = Budget(2, 2, 0, 0)
    /\ InitRest

NextKey ==
    \/ \E u \in Users \ {ADMIN_ID}, ev \in KeyEvents : HandleAiPrompt(u, ev, ctr.upd)
    \/ \E t \in 1..2 :
          \/ TaskCacheGet(t, FALSE)
          \/ TaskFetch(t)
          \/ TaskCallAi(t, AiAnswer(tasks[t].prompt))
          \/ TaskDebitReply(t)
          \/ TaskUpdateHistory(t)
          \/ TaskCacheSet(t, FALSE)

SpecKey == InitKey /\ [][NextKey]_vars

\* the marks a prompt can end with
IsMark(c) == c \in {"?", "!", "."}

RECURSIVE RStripMarks(_)
RStripMarks(s) ==
    IF s # <<>> /\ (IsMark(s[Len(s)]) \/ IsSpace(s[Len(s)]))
    THEN RStripMarks(SubSeq(s, 1, Len(s) - 1))
    ELSE s

\* two prompts that differ only in case, outer whitespace or trailing marks
SameQuestion(p, q) == RStripMarks(LStrip(Lower(p))) = RStripMarks(LStrip(Lower(q)))

\* C22: the key of a key is the key: for the prompt x of every task,
\* CacheKey(CacheKey(x)) = CacheKey(x), and every key of the cache is its own
\* key.
C22_NormalizeIdempotent ==
    /\ \A t \in DOMAIN tasks : CacheKey(CacheKey(tasks[t].prompt)) = CacheKey(tasks[t].prompt)
    /\ \A k \in DOMAIN cache : CacheKey(k) = k

\* C23: two prompts no longer than the key that differ only in case, in
\* outer whitespace or in trailing marks have the same key, which is what
\* makes the cache entry written for one serve the other.
C23_SameQuestionSameKey ==
    \A t1, t2 \in DOMAIN tasks :
        (/\ SameQuestion(tasks[t1].prompt, tasks[t2].prompt)
         /\ Len(tasks[t1].prompt) <= CacheKeyLen
         /\ Len(tasks[t2].prompt) <= CacheKeyLen)
            => CacheKey(tasks[t1].prompt) = CacheKey(tasks[t2].prompt)

(***************************************************************************)
(* Inputs and entries that are turned down: a user with or without AI      *)
(* queries and downloads left, idle or in a flow.                          *)
(***************************************************************************)
InputBalances == {0, FreeAiLimit}
InputStates == {Idle, AwaitingClassSelection, AwaitingSearchQuery, AwaitingAIPrompt}

InitInput ==
    /\ \E a \in InputBalances, d \in InputBalances :
          users = [u \in Users |-> IF u = ADMIN_ID THEN Row(FreeAiLimit, FreePdfLimit) ELSE Row(a, d)]
    /\ \E su \in InputStates :
          fsmState = [u \in Users |-> IF u = ADMIN_ID THEN Idle ELSE su]
    /\ fsmData = [u \in Users |-> EntryData(fsmState[u])]
    /\ ctr = Budget(2, 1, 0, 0)
    /\ InitRest

NextInput ==
    \/ \E u \in Users \ {ADMIN_ID}, ev \in InputEvents :
          \/ StartAiChat(u, ev)
          \/ HandleAiPrompt(u, ev, ctr.upd)
          \/ StartSearch(u, ev)
          \/ \E searchFails \in BOOLEAN, found \in BOOLEAN : HandleSearchQuery(u, ev, searchFails, found)
          \/ SendPdfLink(u, ev)
          \/ HandleUnknownText(u, ev)
          \/ Unhandled(u, ev)
    \/ TaskCacheGet(1, FALSE)
    \/ TaskFetch(1)
    \/ TaskCallAi(1, AiAnswer(tasks[1].prompt))
    \/ TaskDebitReply(1)
    \/ TaskUpdateHistory(1)
    \/ TaskCacheSet(1, FALSE)
    \/ \E i \in 1..2 : ClickDebit(i)

SpecInput == InitInput /\ [][NextInput]_vars

\* a prompt that is empty or too short, a query that is too short or too long
InputError(st, ev) ==
    /\ ev.type = "message"
    /\ \/ /\ st = AwaitingAIPrompt
          /\ (ev.text = NoText \/ Len(Strip(ev.text)) = 0 \/ Len(ev.text) < MinPromptLen)
       \/ /\ st = AwaitingSearchQuery
          /\ ev.text # NoText
          /\ (Len(Strip(ev.text)) < 2 \/ Len(Strip(ev.text)) > 100)

\* C24: an empty or too short prompt in AwaitingAIPrompt, and a too short or
\* too long query in AwaitingSearchQuery, is answered by the flow's handler
\* and changes nothing: not the state, the payload, the counters, the tasks,
\* the cache or the pending downloads.
C24_InputErrorChangesNothing ==
    [][\A u \in Users, ev \in InputEvents :
          (Delivery(u, ev) /\ InputError(fsmState[u], ev))
              => /\ last'.h \in {"handle_ai_prompt", "handle_search_query"}
                 /\ last'.out = "returned"
                 /\ UNCHANGED <<fsmState, fsmData, users, tasks, cache, clicks, pdfs, ledger>>]_vars

\* a user without queries left sent a too short prompt and is still in the flow
C24_ShortPromptAtZero ==
    /\ last.h = "handle_ai_prompt"
    /\ last.ev = Msg(PromptShort)
    /\ users[last.u].ai_limit_remaining = 0
    /\ fsmState[last.u] = AwaitingAIPrompt

\* handler h turns its sender down because the counter it needs is at 0
QuotaRefusal(u, h, ev) ==
    \/ /\ h = "handle_ai_prompt"
       /\ ~InputError(AwaitingAIPrompt, ev)
       /\ AiEntryRefused(users[u])
    \/ /\ h = "start_ai_chat"
       /\ AiEntryRefused(users[u])
    \/ /\ h \in {"start_search", "send_pdf_link"}
       /\ ~users[u].is_premium
       /\ users[u].pdf_downloads_remaining <= 0

SweepBalances == {0, 2}

\* the admin and user 2 were created on first contact at day 0 and were
\* never premium; user 2 has no or two downloads left
InitSweep ==
    /\ \E d \in SweepBalances :
          users = [u \in Users |-> IF u = ADMIN_ID THEN Row(FreeAiLimit, FreePdfLimit)
                                   ELSE Row(FreeAiLimit, d)]
    /\ fsmState = [u \in Users |-> Idle]
    /\ fsmData = [u \in Users |-> EmptyData]
    /\ ctr = [Budget(3, 0, 3, 0) EXCEPT !.sweeps = Daily]
    /\ InitRest

\* the steps of one run of run_daily_tasks
SweepRun ==
    \/ SweepSelectPremium
    \/ \E u \in Users : SweepDowngrade(u)
    \/ SweepSelectFree
    \/ \E u \in Users : SweepResetFree(u)
    \/ SweepResetDaily

NextSweep ==
    \/ AdminUpgradeUser(ADMIN_ID, CmdArg(NameUpgradeUser, <<"2">>))
    \/ SendPdfLink(2, Callback(PfxPdfGet \o <<"1">>))
    \/ \E i \in 1..2 : ClickDebit(i)
    \/ \E d \in TickDays : sweep.pc = "idle" /\ Tick(d)
    \/ SweepRun

SpecSweep == InitSweep /\ [][NextSweep]_vars

\* the cron job runs every day: a run that can start or go on does
SpecSweepLive == SpecSweep /\ WF_vars(SweepRun)

SweepSteps ==
    {"sweep_select_premium", "sweep_downgrade", "sweep_select_free", "sweep_reset_free",
     "sweep_reset_daily"}

\* u is premium and the expiry has passed
Expired(u) ==
    /\ users[u].exists
    /\ users[u].is_premium
    /\ users[u].premium_expiry_date # NULL
    /\ users[u].premium_expiry_date < now

\* u holds a grant that has not run out
Granted(u) ==
    /\ users[u].exists
    /\ users[u].is_premium
    /\ users[u].premium_expiry_date # NULL
    /\ users[u].premium_expiry_date >= now

\* C27: no step of a run of the sweep that happens before the expiry of a
\* grant changes the user's premium flag, expiry date or download counter,
\* and the AI counter is left alone except by the daily reset, which sets it
\* to 100, the value the grant set.
C27_SweepKeepsGrant ==
    [][\A u \in Users :
          (last'.h \in SweepSteps /\ Granted(u))
              => /\ users'[u].is_premium
                 /\ users'[u].premium_expiry_date = users[u].premium_expiry_date
                 /\ users'[u].pdf_downloads_remaining = users[u].pdf_downloads_remaining
                 /\ users'[u].pdf_downloads_reset_date = users[u].pdf_downloads_reset_date
                 /\ users'[u].ai_limit_remaining =
                       IF last'.h = "sweep_reset_daily" THEN PremiumAiLimit
                       ELSE users[u].ai_limit_remaining]_vars

\* a run of the sweep has ended a day after the grant and user 2 has what
\* the grant gave
C27_RunAfterGrant ==
    /\ last.h = "sweep_reset_daily"
    /\ now > 0
    /\ Granted(2)
    /\ users[2].premium_expiry_date = PremiumDays
    /\ users[2].ai_limit_remaining = PremiumAiLimit
    /\ users[2].pdf_downloads_remaining = PremiumPdfLimit

\* C28: a run of the sweep downgrades the users whose premium expiry has
\* passed and no others: end_user_plan leaves such a user free, without an
\* expiry date, with 10 AI queries and 10 downloads; when the run goes on to
\* its second step no expired user is left; and a user who is no longer
\* premium is not downgraded again by a later run.
C28_ExpiredRevertedOnce ==
    /\ [](sweep.pc = "reset_free" => \A u \in Users : ~Expired(u))
    /\ [][\A u \in Users :
             (last'.h = "sweep_downgrade" /\ last'.u = u)
                 => /\ Expired(u)
                    /\ ~users'[u].is_premium
                    /\ users'[u].premium_expiry_date = NULL
                    /\ users'[u].ai_limit_remaining = FreeAiLimit
                    /\ users'[u].pdf_downloads_remaining = FreePdfLimit]_vars

\* user 2 was downgraded by the run of an earlier day, used a download
\* since, and a later run has ended without touching the download counter
C28_SecondRunLeavesReverted ==
    /\ last.h = "sweep_reset_daily"
    /\ users[2].pdf_downloads_reset_date < now + FreeResetDays
    /\ ~users[2].is_premium
    /\ users[2].premium_expiry_date = NULL
    /\ users[2].pdf_downloads_reset_date # NULL
    /\ users[2].pdf_downloads_remaining = FreePdfLimit - 1
    /\ users[2].ai_limit_remaining = FreeAiLimit

\* u is free, has used downloads, and 30 days have passed since the last
\* reset of the download counter or, without one, since the row was created
\* (at day 0)
ResetDue(u) ==
    /\ users[u].exists
    /\ ~users[u].is_premium
    /\ users[u].pdf_downloads_remaining < FreePdfLimit
    /\ IF users[u].pdf_downloads_reset_date = NULL THEN now > FreeResetDays
       ELSE users[u].pdf_downloads_reset_date < now

\* C29: whenever a free user's download counter is due for its 30-day reset
\* and the sweep keeps running, the counter is eventually back at 10 (or the
\* user has become premium).
C29_FreeDownloadsEventuallyReset ==
    \A u \in Users :
        (ResetDue(u) /\ sweep.pc = "idle")
            ~> (users[u].is_premium \/ users[u].pdf_downloads_remaining = FreePdfLimit)

\* the same for the users who were premium once: their reset date is set
C29_FormerPremiumReset ==
    \A u \in Users :
        (ResetDue(u) /\ users[u].pdf_downloads_reset_date # NULL /\ sweep.pc = "idle")
            ~> (users[u].is_premium \/ users[u].pdf_downloads_remaining = FreePdfLimit)

\* a former premium user whose reset date had passed got the 10 downloads back
C29_ResetAfterWindow ==
    /\ last.h = "sweep_reset_free"
    /\ users[2].pdf_downloads_remaining = FreePdfLimit
    /\ users[2].pdf_downloads_reset_date = now + FreeResetDays

\* C30: when a run of the sweep has ended, every premium user has 50
\* downloads and 100 AI queries left.
C30_PremiumCountersAtCeilings ==
    (last.h = "sweep_reset_daily")
        => \A u \in Users :
              (users[u].exists /\ users[u].is_premium)
                  => /\ users[u].pdf_downloads_remaining = PremiumPdfLimit
                     /\ users[u].ai_limit_remaining = PremiumAiLimit

\* the AI half of it: reset_daily_limits does set the AI counter
C30_PremiumAiAtCeiling ==
    (last.h = "sweep_reset_daily")
        => \A u \in Users :
              (users[u].exists /\ users[u].is_premium)
                  => users[u].ai_limit_remaining = PremiumAiLimit

\* C31: every download link a premium user receives takes one off the
\* user's download counter (so that no more than 50 can be had between two
\* resets).
C31_PremiumLinkDebits ==
    [][\A u \in Users :
          (/\ last'.h = "send_pdf_link"
           /\ last'.u = u
           /\ users[u].exists
           /\ users[u].is_premium
           /\ PdfIdOf(last'.ev.data) \in pdfs)
              => users'[u].pdf_downloads_remaining = users[u].pdf_downloads_remaining - 1]_vars

\* a text message that starts with a slash
IsCommand(ev) == ev.type = "message" /\ ev.text # NoText /\ Head(ev.text) = "/"

\* C32: a command other than /stop sent by a user who is in
\* AwaitingSearchQuery or AwaitingAIPrompt is not taken by the flow's text
\* handler: no search runs, no task is scheduled and no counter changes.
C32_CommandsNotConsumed ==
    [][\A u \in Users, ev \in RouteEvents :
          (/\ Delivery(u, ev)
           /\ IsCommand(ev)
           /\ ~Command(NameStop, ev)
           /\ fsmState[u] \in {AwaitingSearchQuery, AwaitingAIPrompt})
              => /\ last'.h \notin {"handle_ai_prompt", "handle_search_query"}
                 /\ UNCHANGED <<users, tasks>>]_vars

\* C33: in every state, the links send_pdf_link has delivered to a user since
\* the download counter was last set do not outnumber the download debits
\* that reported success; when the counter was set to 1, at most one link has
\* been delivered, however many clicks overlapped.
C33_LinksGatedByDebits ==
    \A u \in Users :
        /\ ledger[u].pdf.granted <= ledger[u].pdf.oks
        /\ ledger[u].pdf.start = 1 => ledger[u].pdf.granted <= 1

\* two clicks passed the handler's check at balance 1; both debits ran, one
\* succeeded and one link went out
C33_TwoClicksOneLink ==
    \E u \in Users :
        /\ ledger[u].pdf.start = 1
        /\ ledger[u].pdf.calls = 2
        /\ ledger[u].pdf.oks = 1
        /\ ledger[u].pdf.granted = 1
        /\ users[u].pdf_downloads_remaining = 0

\* C34: whenever send_pdf_link takes a download off a free user's counter it
\* also delivers a link to that user; a click on a PDF that is no longer in
\* the table leaves the counter as it was.
C34_ChargedOnlyWhenDelivered ==
    [][\A u \in Users :
          (/\ last'.h = "send_pdf_link_debit"
           /\ last'.u = u
           /\ users'[u].pdf_downloads_remaining # users[u].pdf_downloads_remaining)
              => ledger'[u].pdf.granted = ledger[u].pdf.granted + 1]_vars

(***************************************************************************)
(* Result lists: user 2 searches, taps the buttons the chat shows, and      *)
(* changes tier by a grant, by /endplan or by the sweep after the expiry.   *)
(***************************************************************************)
InitLocked ==
    /\ users = [u \in Users |-> Row(FreeAiLimit, FreePdfLimit)]
    /\ fsmState = [u \in Users |-> IF u = ADMIN_ID THEN Idle ELSE AwaitingSearchQuery]
    /\ fsmData = [u \in Users |-> EmptyData]
    /\ ctr = Budget(5, 0, 1, 1)
    /\ InitRest

\* the update is a tap on a button the user's chat shows
Tap(u, ev) == ev.type = "callback_query" /\ ev.data \in chat[u]

NextLocked ==
    \/ AdminUpgradeUser(ADMIN_ID, CmdArg(NameUpgradeUser, <<"2">>))
    \/ AdminEndPlan(ADMIN_ID, CmdArg(NameEndPlan, <<"2">>))
    \/ StartSearch(2, Cmd(NameSearch))
    \/ \E found \in BOOLEAN : HandleSearchQuery(2, Msg(PromptHey), FALSE, found)
    \/ \E p \in PdfIds :
          \/ Tap(2, Callback(PfxPdfGet \o IdText(p))) /\ SendPdfLink(2, Callback(PfxPdfGet \o IdText(p)))
          \/ Tap(2, Callback(PfxPdfLock \o IdText(p))) /\ HandleLockedPdf(2, Callback(PfxPdfLock \o IdText(p)))
    \/ \E i \in 1..2 : ClickDebit(i)
    \/ sweep.pc = "idle" /\ Tick(PremiumDays + 1)
    \/ SweepRun

SpecLocked == InitLocked /\ [][NextLocked]_vars

\* C35: a link that send_pdf_link delivers to a user who was not premium when
\* the button was tapped is the link of a free PDF.
C35_NoLockedLinkForFreeUser ==
    [][\A i \in 1..2 :
          (/\ ClickDebit(i)
           /\ LinkDelivered(DebitApplies(users[clicks[i].user], "pdf_downloads_remaining"),
                            clicks[i].pdf \in pdfs))
              => is_free(clicks[i].pdf)]_vars

\* as long as the user's tier has not changed since the list was shown, the
\* chat of a free user holds no download button of a locked PDF
C35_FreeListsLockLocked ==
    \A u \in Users :
        (users[u].exists /\ ~users[u].is_premium /\ users[u].pdf_downloads_reset_date = NULL
            /\ users[u].premium_expiry_date = NULL)
            => \A p \in PdfIds : (PfxPdfGet \o IdText(p)) \in chat[u] => is_free(p)

\* C36: in every state, a user whose session is Idle has an empty payload.
C36_IdleHasNoPayload ==
    \A u \in Users : fsmState[u] = Idle => fsmData[u] = EmptyData

\* C37: the sweep does not downgrade a user whose premium expiry is not in
\* the past when end_user_plan is about to run for that user (an extension
\* made after the selection counts): the row is left as it is.
C37_ExtendedNotDowngraded ==
    [][\A u \in Users :
          (last'.h = "sweep_downgrade" /\ last'.u = u /\ Granted(u))
              => users'[u] = users[u]]_vars

\* C38: in every state a user can be in, /search and the search button go to
\* start_search, and /ai and the chat button go to start_ai_chat.
C38_EntryCommandsFromAnyState ==
    [][\A u \in Users \ {ADMIN_ID}, ev \in RouteEvents :
          /\ (Delivery(u, ev) /\ ev \in {Cmd(NameSearch), Msg(BtnSearchPdf)})
                => last'.h = "start_search"
          /\ (Delivery(u, ev) /\ ev \in {Cmd(NameAi), Msg(BtnChatAi)})
                => last'.h = "start_ai_chat"]_vars

\* C39: when /start has been handled for a registered user who has chosen a
\* class, the user's session is Idle.
C39_StartLeavesIdle ==
    [][\A u \in Users :
          (/\ Delivery(u, Cmd(NameStart))
           /\ last'.h = "handle_start"
           /\ users[u].exists
           /\ users[u].selected_class # ClassNone)
              => fsmState'[u] = Idle]_vars

\* C40: handle_screenshot leaves AwaitingScreenshot (and confirms) only when
\* the notification to the operator and the forward of the photo were both
\* delivered; when either fails the session, payload included, is as before
\* and the handler answers with its error reply (and ends by itself unless
\* that reply cannot be sent either).
C40_AcknowledgedOnlyWhenDelivered ==
    [][\A u \in Users, sent \in ScreenshotSends :
          HandleScreenshot(u, Photo(NoText), sent)
              => /\ fsmState'[u] = Idle => sent \notin {"notify_failed", "forward_failed", "all_failed"}
                 /\ sent \in {"notify_failed", "forward_failed", "all_failed"}
                       => /\ fsmState'[u] = AwaitingScreenshot
                          /\ fsmData' = fsmData
                          /\ last'.out = "returned" <=> sent # "all_failed"
                 /\ sent = "all" => fsmState'[u] = Idle /\ fsmData'[u] = EmptyData]_vars

\* a photo was handled and the sender is still asked for the screenshot
C40_ProofNotAcknowledged ==
    /\ last.h = "handle_screenshot"
    /\ last.ev = Photo(NoText)
    /\ fsmState[last.u] = AwaitingScreenshot

====
